---- MODULE Spec2Model ----
(***************************************************************************)
(* A model of the Rustle Logo interpreter: the value model and its         *)
(* coercions (rs_ast.rs, rs_operators.rs), the variable environment        *)
(* (rs_variables.rs), the procedure registry and parameter stack           *)
(* (rs_procedure.rs), the operand stack (rs_stack.rs), the turtle state    *)
(* (rs_turtle.rs) and the tree-walking evaluator (rs_interpreter.rs).      *)
(*                                                                         *)
(* Text is a sequence of one-character strings, so that parsing,           *)
(* upper-casing and formatting are computed and not assumed.               *)
(***************************************************************************)
EXTENDS Integers, Sequences, FiniteSets, TLC

VARIABLES source, cont, status, variables, procedures, parameter_stack,
          stack, turtle, trace

vars == <<source, cont, status, variables, procedures, parameter_stack,
          stack, turtle, trace>>

(***************************************************************************)
(* Bounds of the model.                                                    *)
(***************************************************************************)
\* Largest loop bound and start value of the WHILE family of programs.
MaxLoop == 3
\* Commands executed in one run before the model stops following it
\* (only the non-terminating program gets there).
MaxSteps == 24

(***************************************************************************)
(* 32-bit signed integers (Value::Number(i32)).                            *)
(***************************************************************************)
I32_MAX == 2147483647
I32_MIN == -I32_MAX - 1

Some(v) == [ok |-> TRUE, v |-> v]
None == [ok |-> FALSE]

\* i32::checked_add: None when the exact sum is outside the i32 range.
checked_add(a, b) ==
    IF b > 0 /\ a > I32_MAX - b THEN None
    ELSE IF b < 0 /\ a < I32_MIN - b THEN None
    ELSE Some(a + b)

\* i32::checked_sub.
checked_sub(a, b) ==
    IF b < 0 /\ a > I32_MAX + b THEN None
    ELSE IF b > 0 /\ a < I32_MIN + b THEN None
    ELSE Some(a - b)

\* |a| for a # I32_MIN.
Abs(a) == IF a < 0 THEN -a ELSE a

\* i32::checked_mul, decided by division so that no product leaves the range.
checked_mul(a, b) ==
    IF a = 0 \/ b = 0 THEN Some(0)
    ELSE IF a = I32_MIN THEN (IF b = 1 THEN Some(a) ELSE None)
    ELSE IF b = I32_MIN THEN (IF a = 1 THEN Some(b) ELSE None)
    ELSE LET aa == Abs(a)
             bb == Abs(b)
         IN  IF aa <= I32_MAX \div bb THEN Some(a * b)
             ELSE IF (a < 0) # (b < 0) /\ aa - 1 = I32_MAX \div bb
                     /\ I32_MAX % bb = bb - 1
                  THEN Some(I32_MIN)
                  ELSE None

\* The two's-complement sum a + b of two i32 (i32::wrapping_add): what an
\* unchecked `+` stores in a build without overflow checks.
wrapping_add(a, b) ==
    IF b > 0 /\ a > I32_MAX - b THEN ((a - I32_MAX) + (b - I32_MAX)) - 2
    ELSE IF b < 0 /\ a < I32_MIN - b THEN (a - I32_MIN) + (b - I32_MIN)
    ELSE a + b

\* i32::wrapping_sub: what an unchecked `-` stores in a build without
\* overflow checks.
wrapping_sub(a, b) ==
    IF b < 0 /\ a > I32_MAX + b THEN ((a - I32_MAX) - (b + I32_MAX)) - 2
    ELSE IF b > 0 /\ a < I32_MIN + b THEN (a - I32_MIN) - (b + I32_MIN)
    ELSE a - b

(***************************************************************************)
(* Text.                                                                   *)
(***************************************************************************)
Digits == <<"0", "1", "2", "3", "4", "5", "6", "7", "8", "9">>
LowerLetters == <<"a", "b", "c", "d", "e", "f", "g", "h", "i", "j", "k", "l", "m",
                  "n", "o", "p", "q", "r", "s", "t", "u", "v", "w", "x", "y", "z">>
UpperLetters == <<"A", "B", "C", "D", "E", "F", "G", "H", "I", "J", "K", "L", "M",
                  "N", "O", "P", "Q", "R", "S", "T", "U", "V", "W", "X", "Y", "Z">>

IsDigit(c) == \E i \in 1..10 : Digits[i] = c
DigitVal(c) == (CHOOSE i \in 1..10 : Digits[i] = c) - 1

\* The characters of a text are those of ASCII, the letters and the
\* numerics of Latin-1, and LongS, DotlessI, CapitalYDiaeresis and
\* CapitalMu below; a text with any other character is outside the model.
\* The letters of Latin-1 that come in a lower-case and an upper-case form.
LowerLatin == <<"à", "á", "â", "ã", "ä", "å", "æ", "ç", "è", "é", "ê", "ë", "ì",
              "í", "î", "ï", "ð", "ñ", "ò", "ó", "ô", "õ", "ö", "ø", "ù", "ú",
              "û", "ü", "ý", "þ">>
UpperLatin == <<"À", "Á", "Â", "Ã", "Ä", "Å", "Æ", "Ç", "È", "É", "Ê", "Ë", "Ì",
              "Í", "Î", "Ï", "Ð", "Ñ", "Ò", "Ó", "Ô", "Õ", "Ö", "Ø", "Ù", "Ú",
              "Û", "Ü", "Ý", "Þ">>
\* The long s, the dotless i and the capital Y with diaeresis, written by
\* their code points, and the Greek capital mu.
LongS == "U+017F"
DotlessI == "U+0131"
CapitalYDiaeresis == "U+0178"
CapitalMu == "Μ"
\* The sharp s, the y with diaeresis and the micro sign: with the long s
\* and the dotless i, the letters whose upper case is outside Latin-1 or is
\* two characters.
SharpS == "ß"
YDiaeresis == "ÿ"
MicroSign == "µ"
\* The letters and the numerics beyond ASCII that are their own upper case:
\* the ordinal indicators, the superscript digits and the fractions, and
\* the two capitals above.
Caseless ==
    {"ª", "º", "²", "³", "¹", "¼", "½", "¾",
     CapitalMu, CapitalYDiaeresis}

\* char::to_uppercase: the characters a character becomes, two of them for
\* the sharp s; a character without an upper case is kept.
UpperChar(c) ==
    IF \E i \in 1..26 : LowerLetters[i] = c
    THEN <<UpperLetters[CHOOSE i \in 1..26 : LowerLetters[i] = c]>>
    ELSE IF \E i \in 1..30 : LowerLatin[i] = c
    THEN <<UpperLatin[CHOOSE i \in 1..30 : LowerLatin[i] = c]>>
    ELSE CASE c = SharpS -> <<"S", "S">>
           [] c = YDiaeresis -> <<CapitalYDiaeresis>>
           [] c = MicroSign -> <<CapitalMu>>
           [] c = LongS -> <<"S">>
           [] c = DotlessI -> <<"I">>
           [] OTHER -> <<c>>

\* str::to_uppercase: the upper case of each character in turn.
RECURSIVE to_uppercase(_)
to_uppercase(s) ==
    IF s = <<>> THEN <<>> ELSE UpperChar(Head(s)) \o to_uppercase(Tail(s))

T_TRUE == <<"T", "R", "U", "E">>
T_FALSE == <<"F", "A", "L", "S", "E">>
T_true == <<"t", "r", "u", "e">>
T_procedure_call == <<"p", "r", "o", "c", "e", "d", "u", "r", "e", " ", "c", "a", "l", "l">>
T_arguments == <<" ", "a", "r", "g", "u", "m", "e", "n", "t", "s">>
T_query == <<"q", "u", "e", "r", "y">>
T_SETPENCOLOR == <<"S", "E", "T", "P", "E", "N", "C", "O", "L", "O", "R">>
T_false == <<"f", "a", "l", "s", "e">>

\* The digits of s, most significant first, accumulated as str::parse::<i32>
\* does: acc * 10 + d for a positive number, acc * 10 - d for a negative one,
\* each step checked.
RECURSIVE ParseDigits(_, _, _)
ParseDigits(s, acc, neg) ==
    IF s = <<>> THEN Some(acc)
    ELSE IF ~IsDigit(Head(s)) THEN None
    ELSE LET d == DigitVal(Head(s))
         IN  IF neg
             THEN IF acc < (I32_MIN + d + 9) \div 10 THEN None
                  ELSE ParseDigits(Tail(s), acc * 10 - d, neg)
             ELSE IF acc > (I32_MAX - d) \div 10 THEN None
                  ELSE ParseDigits(Tail(s), acc * 10 + d, neg)

\* str::parse::<i32>: an optional sign, then at least one digit, in range.
parse_i32(s) ==
    IF s = <<>> THEN None
    ELSE IF Head(s) \in {"-", "+"}
         THEN IF Tail(s) = <<>> THEN None
              ELSE ParseDigits(Tail(s), 0, Head(s) = "-")
         ELSE ParseDigits(s, 0, FALSE)

\* The decimal digits of n <= 0 taken as a magnitude (so that i32::MIN has one).
RECURSIVE NegDigits(_)
NegDigits(n) ==
    LET d == (10 - (n % 10)) % 10
        q == (n + d) \div 10
    IN  IF q = 0 THEN <<Digits[d + 1]>>
        ELSE Append(NegDigits(q), Digits[d + 1])

\* i32::to_string.
i32_to_string(n) ==
    IF n < 0 THEN <<"-">> \o NegDigits(n) ELSE NegDigits(-n)

\* bool::to_string.
bool_to_string(b) == IF b THEN T_true ELSE T_false

(***************************************************************************)
(* Values, expressions and commands (rs_ast.rs).                           *)
(***************************************************************************)
Number(n) == [t |-> "Number", n |-> n]
String(s) == [t |-> "String", s |-> s]
Variable(name) == [t |-> "Variable", name |-> name]
Boolean(b) == [t |-> "Boolean", b |-> b]

EValue(v) == [e |-> "Value", v |-> v]
BinaryOp(op, l, r) == [e |-> "BinaryOp", op |-> op, left |-> l, right |-> r]
Query(q) == [e |-> "Query", query |-> q]

\* Commands. The four movement commands, the two rotations and the two
\* position commands each carry one expression.
PenUp == [c |-> "PenUp"]
PenDown == [c |-> "PenDown"]
Forward(expr) == [c |-> "Forward", expr |-> expr]
Back(expr) == [c |-> "Back", expr |-> expr]
Left(expr) == [c |-> "Left", expr |-> expr]
Right(expr) == [c |-> "Right", expr |-> expr]
SetPenColor(expr) == [c |-> "SetPenColor", expr |-> expr]
Turn(expr) == [c |-> "Turn", expr |-> expr]
SetHeading(expr) == [c |-> "SetHeading", expr |-> expr]
SetX(expr) == [c |-> "SetX", expr |-> expr]
SetY(expr) == [c |-> "SetY", expr |-> expr]
Make(name_expr, value_expr) == [c |-> "Make", name |-> name_expr, value |-> value_expr]
AddAssign(name, expr) == [c |-> "AddAssign", name |-> name, expr |-> expr]
If(condition, body) == [c |-> "If", condition |-> condition, body |-> body]
While(condition, body) == [c |-> "While", condition |-> condition, body |-> body]
ExpressionCmd(expr) == [c |-> "Expression", expr |-> expr]
ProcedureDefinition(name, parameters, body) ==
    [c |-> "ProcedureDefinition", name |-> name, parameters |-> parameters,
     body |-> body]
ProcedureCall(name, arguments) ==
    [c |-> "ProcedureCall", name |-> name, arguments |-> arguments]

\* Errors (rs_error.rs): the kinds the evaluator raises, with the fields a
\* claim reads.
UndefinedVariable(name) == [kind |-> "UndefinedVariable", variable_name |-> name]
InvalidArgument(command, argument) ==
    [kind |-> "InvalidArgument", command |-> command, argument |-> argument]
UnexpectedValue(got) == [kind |-> "UnexpectedValue", got |-> got]
TypeMismatch == [kind |-> "TypeMismatch"]
Overflow == [kind |-> "Overflow"]
DivisionByZero == [kind |-> "DivisionByZero"]
StackUnderflow == [kind |-> "StackUnderflow"]
DrawError(text) == [kind |-> "DrawError", text |-> text]
\* Not an RSLogoError: the process aborts (an arithmetic-overflow panic of a
\* build with overflow checks, or the panic of i32::MIN / -1 in every build).
Panic == [kind |-> "Panic"]
\* Not an RSLogoError: the command never returns (in a build without
\* overflow checks forward and back, or left and right, call each other for
\* ever on i32::MIN, which is its own negation).
NeverReturns == [kind |-> "NeverReturns"]

Ok(v) == [ok |-> TRUE, v |-> v]
Err(e) == [ok |-> FALSE, err |-> e]

(***************************************************************************)
(* The variable environment (rs_variables.rs).                             *)
(***************************************************************************)
\* The value VariableManager::set stores for the String `value`, whose
\* upper-cased text is `upper` and whose parse as an i32 is `parsed`.
stored_string(value, upper, parsed) ==
    IF upper = T_TRUE THEN Boolean(TRUE)
    ELSE IF upper = T_FALSE THEN Boolean(FALSE)
    ELSE IF parsed.ok THEN Number(parsed.v)
    ELSE value

\* A faulty set that keeps the text of a number in place of the Number.
stored_value_Text(value) ==
    IF value.t = "Number" THEN String(i32_to_string(value.n)) ELSE value

\* The value VariableManager::set stores for `value`.
stored_value(value) ==
    IF value.t = "String"
    THEN stored_string(value, to_uppercase(value.s), parse_i32(value.s))
    ELSE value

\* VariableManager::set on the map vs: insert or overwrite.
variables_set(vs, name, value) ==
    [k \in DOMAIN vs \cup {name} |->
        IF k = name THEN stored_value(value) ELSE vs[k]]

\* VariableManager::get: Some(value) or None.
variables_get(name) ==
    IF name \in DOMAIN variables THEN Some(variables[name]) ELSE None

(***************************************************************************)
(* The procedure registry and the parameter stack (rs_procedure.rs).       *)
(***************************************************************************)
\* ProcedureManager::get_parameter_value: the binding of `name` in the
\* frames ps[1..k], searched from frame k (the most recent) downwards.
RECURSIVE SearchFrames(_, _, _)
SearchFrames(ps, k, name) ==
    IF k = 0 THEN None
    ELSE IF name \in DOMAIN ps[k] THEN Some(ps[k][name])
    ELSE SearchFrames(ps, k - 1, name)

\* A faulty lookup that consults the most recent frame alone.
get_parameter_value_Innermost(name) ==
    IF parameter_stack # <<>> /\ name \in DOMAIN parameter_stack[Len(parameter_stack)]
    THEN Some(parameter_stack[Len(parameter_stack)][name])
    ELSE None

get_parameter_value(name) ==
    SearchFrames(parameter_stack, Len(parameter_stack), name)

\* The bindings params.iter().zip(args) inserts, in order: a later
\* parameter of the same name overwrites an earlier one.
param_bindings(params, args) ==
    [k \in {params[i] : i \in 1..Len(params)} |->
        args[CHOOSE i \in 1..Len(params) :
                /\ params[i] = k
                /\ \A j \in 1..Len(params) : params[j] = k => j <= i]]

\* ProcedureManager::push_parameters: the new parameter stack, or the
\* arity error.
push_parameters(params, args) ==
    IF Len(params) # Len(args)
    THEN Err(InvalidArgument(T_procedure_call, i32_to_string(Len(args)) \o T_arguments))
    ELSE Ok(Append(parameter_stack, param_bindings(params, args)))

\* A faulty pop_parameters that leaves the frame of the call on the stack.
pop_parameters_Keep(ps) == ps

\* A faulty pop_parameters that drops every frame.
pop_parameters_All(ps) == <<>>

\* ProcedureManager::pop_parameters (Vec::pop: nothing on an empty stack).
pop_parameters(ps) == IF ps = <<>> THEN ps ELSE SubSeq(ps, 1, Len(ps) - 1)

\* The name define_procedure stores for the parameter `param` written with a
\* ':' prefix, var_value being what variables.get finds for the rest of it.
evaluated_param(param, var_value) ==
    IF var_value.ok /\ var_value.v.t = "String" THEN var_value.v.s ELSE param

\* The formal-parameter names ProcedureManager::define_procedure stores.
evaluated_params(parameters) ==
    [i \in 1..Len(parameters) |->
        IF parameters[i] # <<>> /\ Head(parameters[i]) = ":"
        THEN evaluated_param(parameters[i], variables_get(Tail(parameters[i])))
        ELSE parameters[i]]

\* ProcedureManager::define_procedure on the registry procs.
define_procedure(procs, name, parameters, body) ==
    [k \in DOMAIN procs \cup {name} |->
        IF k = name
        THEN [parameters |-> evaluated_params(parameters), body |-> body]
        ELSE procs[k]]

(***************************************************************************)
(* The operand stack (rs_stack.rs).                                        *)
(***************************************************************************)
\* A faulty push that stores nothing.
stack_push_Lost(stk, value) == stk

\* Stack::push.
stack_push(stk, value) == Append(stk, value)

\* Stack::pop: the popped value and the rest, or StackUnderflow.
stack_pop(stk) ==
    IF stk = <<>> THEN Err(StackUnderflow)
    ELSE [ok |-> TRUE, v |-> stk[Len(stk)], stack |-> SubSeq(stk, 1, Len(stk) - 1)]

(***************************************************************************)
(* The operator evaluator (rs_operators.rs).                               *)
(***************************************************************************)
\* Result<i32, _>::map_err: the parsed number, or the error err.
parsed_or(parsed, err) == IF parsed.ok THEN Ok(parsed.v) ELSE Err(err)

\* A faulty value_to_number that fails as the evaluator's value_to_int does.
value_to_number_Unexpected(value) ==
    CASE value.t = "Number" -> Ok(value.n)
      [] value.t = "String" -> parsed_or(parse_i32(value.s), UnexpectedValue(value.s))
      [] value.t = "Boolean" -> Ok(IF value.b THEN 1 ELSE 0)
      [] value.t = "Variable" -> Err(TypeMismatch)

\* rs_operators::value_to_number.
value_to_number(value) ==
    CASE value.t = "Number" -> Ok(value.n)
      [] value.t = "String" -> parsed_or(parse_i32(value.s), TypeMismatch)
      [] value.t = "Boolean" -> Ok(IF value.b THEN 1 ELSE 0)
      [] value.t = "Variable" -> Err(TypeMismatch)

\* rs_operators::value_to_bool.
op_value_to_bool(value) ==
    CASE value.t = "Boolean" -> Ok(value.b)
      [] value.t = "Number" -> Ok(value.n # 0)
      [] value.t = "String" -> Ok(to_uppercase(value.s) = T_TRUE)
      [] value.t = "Variable" -> Err(TypeMismatch)

\* Two conversions in a row, each followed by `?`: the error of the left
\* one, else the error of the right one, else both values.
both(l, r) == IF ~l.ok THEN l ELSE IF ~r.ok THEN r ELSE Ok(<<l.v, r.v>>)

both_numbers(left, right) == both(value_to_number(left), value_to_number(right))

both_bools(left, right) == both(op_value_to_bool(left), op_value_to_bool(right))

\* A checked i32 result as a Value, or Overflow.
number_or_overflow(r) == IF r.ok THEN Ok(Number(r.v)) ELSE Err(Overflow)

\* A faulty addition that wraps around in place of reporting Overflow.
add_numbers_Wrapping(n) ==
    IF ~n.ok THEN n ELSE Ok(Number(wrapping_add(n.v[1], n.v[2])))

\* The arithmetic, comparison and logical operators on the converted
\* operands n (or on the conversion's error).
add_numbers(n) ==
    IF ~n.ok THEN n ELSE number_or_overflow(checked_add(n.v[1], n.v[2]))

add(left, right) == add_numbers(both_numbers(left, right))

subtract_numbers(n) ==
    IF ~n.ok THEN n ELSE number_or_overflow(checked_sub(n.v[1], n.v[2]))

subtract(left, right) == subtract_numbers(both_numbers(left, right))

multiply_numbers(n) ==
    IF ~n.ok THEN n ELSE number_or_overflow(checked_mul(n.v[1], n.v[2]))

multiply(left, right) == multiply_numbers(both_numbers(left, right))

\* The quotient l / r of two i32, r # 0, truncated toward zero (Rust's `/`),
\* from the floored quotient \div; (i32::MIN, -1) is excluded by the caller.
trunc_div(l, r) ==
    LET q == l \div r
    IN  IF q < 0 /\ (r = I32_MIN \/ l % Abs(r) # 0) THEN q + 1 ELSE q

\* A faulty division that yields 0 for a zero divisor.
divide_numbers_ZeroQuotient(n) ==
    IF ~n.ok THEN n
    ELSE IF n.v[2] = 0 THEN Ok(Number(0))
    ELSE IF n.v[1] = I32_MIN /\ n.v[2] = -1 THEN Err(Panic)
    ELSE Ok(Number(trunc_div(n.v[1], n.v[2])))

\* rs_operators::divide. The unchecked `/` on (i32::MIN, -1) panics in
\* every build ("attempt to divide with overflow").
divide_numbers(n) ==
    IF ~n.ok THEN n
    ELSE IF n.v[2] = 0 THEN Err(DivisionByZero)
    ELSE IF n.v[1] = I32_MIN /\ n.v[2] = -1 THEN Err(Panic)
    ELSE Ok(Number(trunc_div(n.v[1], n.v[2])))

divide(left, right) == divide_numbers(both_numbers(left, right))

\* A number against the parse of a string, in rs_operators::equal.
equal_parsed(n, parsed) ==
    IF parsed.ok THEN Ok(Boolean(n = parsed.v)) ELSE Err(TypeMismatch)

\* A faulty EQ that tells the letter cases of two strings apart.
equal_CaseSensitive(left, right) ==
    CASE left.t = "Number" /\ right.t = "Number" -> Ok(Boolean(left.n = right.n))
      [] left.t = "String" /\ right.t = "String" -> Ok(Boolean(left.s = right.s))
      [] left.t = "Boolean" /\ right.t = "Boolean" -> Ok(Boolean(left.b = right.b))
      [] left.t = "Number" /\ right.t = "String" ->
            equal_parsed(left.n, parse_i32(right.s))
      [] left.t = "String" /\ right.t = "Number" ->
            equal_parsed(right.n, parse_i32(left.s))
      [] OTHER -> Err(TypeMismatch)

\* rs_operators::equal.
equal(left, right) ==
    CASE left.t = "Number" /\ right.t = "Number" -> Ok(Boolean(left.n = right.n))
      [] left.t = "String" /\ right.t = "String" ->
            Ok(Boolean(to_uppercase(left.s) = to_uppercase(right.s)))
      [] left.t = "Boolean" /\ right.t = "Boolean" -> Ok(Boolean(left.b = right.b))
      [] left.t = "Number" /\ right.t = "String" ->
            equal_parsed(left.n, parse_i32(right.s))
      [] left.t = "String" /\ right.t = "Number" ->
            equal_parsed(right.n, parse_i32(left.s))
      [] OTHER -> Err(TypeMismatch)

not_equal_numbers(n) == IF ~n.ok THEN n ELSE Ok(Boolean(n.v[1] # n.v[2]))

not_equal(left, right) == not_equal_numbers(both_numbers(left, right))

greater_than_numbers(n) == IF ~n.ok THEN n ELSE Ok(Boolean(n.v[1] > n.v[2]))

greater_than(left, right) == greater_than_numbers(both_numbers(left, right))

\* A faulty LT that also holds of equal operands.
less_than_numbers_OrEqual(n) == IF ~n.ok THEN n ELSE Ok(Boolean(n.v[1] <= n.v[2]))

less_than_numbers(n) == IF ~n.ok THEN n ELSE Ok(Boolean(n.v[1] < n.v[2]))

less_than(left, right) == less_than_numbers(both_numbers(left, right))

and_bools(b) == IF ~b.ok THEN b ELSE Ok(Boolean(b.v[1] /\ b.v[2]))

and(left, right) == and_bools(both_bools(left, right))

or_bools(b) == IF ~b.ok THEN b ELSE Ok(Boolean(b.v[1] \/ b.v[2]))

or(left, right) == or_bools(both_bools(left, right))

\* The function of two values an Operator stands for.
operator_fn(op, left, right) ==
    CASE op = "Add" -> add(left, right)
      [] op = "Subtract" -> subtract(left, right)
      [] op = "Multiply" -> multiply(left, right)
      [] op = "Divide" -> divide(left, right)
      [] op = "Equal" -> equal(left, right)
      [] op = "NotEqual" -> not_equal(left, right)
      [] op = "GreaterThan" -> greater_than(left, right)
      [] op = "LessThan" -> less_than(left, right)
      [] op = "And" -> and(left, right)
      [] op = "Or" -> or(left, right)

\* A result r together with the operand stack stk left behind.
with_stack(r, stk) ==
    IF r.ok THEN [ok |-> TRUE, v |-> r.v, stack |-> stk]
    ELSE [ok |-> FALSE, err |-> r.err, stack |-> stk]

\* A faulty apply that takes the value popped first as the left operand.
apply_left_Swapped(op, right, left) ==
    IF ~left.ok THEN with_stack(left, right.stack)
    ELSE with_stack(operator_fn(op, right.v, left.v), left.stack)

\* Operator::apply once the right operand has been popped.
apply_left(op, right, left) ==
    IF ~left.ok THEN with_stack(left, right.stack)
    ELSE with_stack(operator_fn(op, left.v, right.v), left.stack)

\* Operator::apply once the first pop has been tried.
apply_right(op, stk, right) ==
    IF ~right.ok THEN with_stack(right, stk)
    ELSE apply_left(op, right, stack_pop(right.stack))

\* Operator::apply on the stack stk: pops the right operand, then the left
\* one, and applies the operator. The result carries the stack left behind.
apply(op, stk) == apply_right(op, stk, stack_pop(stk))

(***************************************************************************)
(* The turtle (rs_turtle.rs). Only the state the evaluator can read back   *)
(* is kept: position, heading, pen and the index of the pen color.         *)
(***************************************************************************)
\* The index of Color::white() in unsvg::COLORS.
COLOR_WHITE == 7
\* unsvg::COLORS.len().
COLORS_LEN == 16
\* The width and the height of the image (the command line's arguments).
ImageSize == 200

\* Turtle::new.
turtle_new(width, height) ==
    [x |-> width \div 2, y |-> height \div 2, heading |-> 0,
     pen_down |-> FALSE, color |-> COLOR_WHITE]

\* The outcomes of the unchecked `a + b` and `a - b` of rs_turtle.rs:
\* the result when it is an i32; otherwise the build decides, a panic
\* (overflow checks on) or the two's-complement result (overflow checks off).
heading_plus(a, b) ==
    IF checked_add(a, b).ok THEN {Ok(a + b)}
    ELSE {Err(Panic), Ok(wrapping_add(a, b))}

heading_minus(a, b) ==
    IF checked_sub(a, b).ok THEN {Ok(a - b)}
    ELSE {Err(Panic), Ok(wrapping_sub(a, b))}

\* The directions and the lengths up to which the end of a line along an
\* axis is taken to be exact (the library computes it in f32).
AxisExact == 65536

\* An interval of i32 around x, of half-width numpixels >= 0.
around(x, numpixels) ==
    (IF x < I32_MIN + numpixels THEN I32_MIN ELSE x - numpixels) ..
    (IF x > I32_MAX - numpixels THEN I32_MAX ELSE x + numpixels)

\* unsvg::get_end_coordinates, numpixels >= 0 (0 degrees is up, 90 is
\* right): a function of its four arguments. For a direction that is a
\* multiple of 90 degrees, within the exact range, it is the end point along
\* the axis. For every other direction the trigonometry of the library is
\* not computed: the end point is a fixed point, no further than numpixels
\* along each axis, that the model does not determine.
get_end_coordinates(x, y, direction, numpixels) ==
    IF /\ direction % 90 = 0
       /\ direction >= -AxisExact /\ direction <= AxisExact
       /\ numpixels <= AxisExact
       /\ x >= -AxisExact /\ x <= AxisExact
       /\ y >= -AxisExact /\ y <= AxisExact
    THEN CASE direction % 360 = 0 -> <<x, y - numpixels>>
           [] direction % 360 = 90 -> <<x + numpixels, y>>
           [] direction % 360 = 180 -> <<x, y + numpixels>>
           [] direction % 360 = 270 -> <<x - numpixels, y>>
    ELSE CHOOSE end \in around(x, numpixels) \X around(y, numpixels) : TRUE

\* The text of the error of the library when it fails to draw a line; the
\* model does not read it.
T_draw_failure == <<"d", "r", "a", "w">>

\* Image::draw_simple_line: the library draws the line and returns its end,
\* or fails with a text. When it fails is up to the library, and the end it
\* returns is taken to be the one of unsvg::get_end_coordinates. (The drawn
\* line itself is not part of the state.)
draw_simple_line(x, y, direction, numpixels) ==
    {Ok(get_end_coordinates(x, y, direction, numpixels)), Err(T_draw_failure)}

\* Turtle::process_movement: the new position is the end of the drawn line
\* with the pen down, and is computed alone with the pen up; the results are
\* the turtle at the new position, or DrawError with the turtle left where
\* it is.
process_movement(tu, numpixels, direction) ==
    {IF new_position.ok
     THEN Ok([tu EXCEPT !.x = new_position.v[1], !.y = new_position.v[2]])
     ELSE Err(DrawError(new_position.err)) :
        new_position \in
            IF tu.pen_down THEN draw_simple_line(tu.x, tu.y, direction, numpixels)
            ELSE {Ok(get_end_coordinates(tu.x, tu.y, direction, numpixels))}}

\* process_movement along a direction that an unchecked operation has
\* computed, or the panic of that operation.
moved(tu, numpixels, direction) ==
    IF ~direction.ok THEN {Err(direction.err)}
    ELSE process_movement(tu, numpixels, direction.v)

\* forward(i32::MIN), and back, left and right of it, once the direction is
\* computed: `-numpixels` panics, or is i32::MIN again and the two
\* primitives call each other without end.
negation_overflows == {Err(Panic), Err(NeverReturns)}

\* Turtle::right on numpixels >= 0.
right_by(tu, numpixels) ==
    UNION {moved(tu, numpixels, right_heading) :
              right_heading \in heading_plus(tu.heading, 90)}

\* Turtle::forward / back / left / right: the set of the results, a turtle
\* or an error. Each computes its direction before it looks at the sign. A
\* negative magnitude is passed on negated to the opposite primitive; right
\* passes it to left without negating it, and left then passes its
\* negation back to right.

\* Turtle::back once back_heading is computed; on a negative magnitude it
\* is forward of the negation, which moves along the heading.
back_from(tu, numpixels, back_heading) ==
    IF ~back_heading.ok THEN {Err(back_heading.err)}
    ELSE IF numpixels >= 0 THEN moved(tu, numpixels, back_heading)
    ELSE IF numpixels = I32_MIN THEN negation_overflows
    ELSE moved(tu, -numpixels, Ok(tu.heading))

turtle_back(tu, numpixels) ==
    UNION {back_from(tu, numpixels, back_heading) :
              back_heading \in heading_plus(tu.heading, 180)}

turtle_forward(tu, numpixels) ==
    IF numpixels >= 0 THEN moved(tu, numpixels, Ok(tu.heading))
    ELSE IF numpixels = I32_MIN THEN negation_overflows
    ELSE turtle_back(tu, -numpixels)

\* Turtle::left once left_heading is computed.
left_from(tu, numpixels, left_heading) ==
    IF ~left_heading.ok THEN {Err(left_heading.err)}
    ELSE IF numpixels >= 0 THEN moved(tu, numpixels, left_heading)
    ELSE IF numpixels = I32_MIN THEN negation_overflows
    ELSE right_by(tu, -numpixels)

turtle_left(tu, numpixels) ==
    UNION {left_from(tu, numpixels, left_heading) :
              left_heading \in heading_minus(tu.heading, 90)}

\* Turtle::right once right_heading is computed.
right_from(tu, numpixels, right_heading) ==
    IF ~right_heading.ok THEN {Err(right_heading.err)}
    ELSE IF numpixels >= 0 THEN moved(tu, numpixels, right_heading)
    ELSE turtle_left(tu, numpixels)

turtle_right(tu, numpixels) ==
    UNION {right_from(tu, numpixels, right_heading) :
              right_heading \in heading_plus(tu.heading, 90)}

\* Turtle::turn: the unchecked `self.heading += degrees`.
turtle_turn(tu, degrees) ==
    {IF heading.ok THEN Ok([tu EXCEPT !.heading = heading.v]) ELSE Err(heading.err) :
        heading \in heading_plus(tu.heading, degrees)}

(***************************************************************************)
(* The evaluator (rs_interpreter.rs): coercions and name resolution.       *)
(***************************************************************************)
\* Interpreter::value_to_int. A Variable is looked up in the global
\* environment and its value converted in turn.
RECURSIVE value_to_int(_)
value_to_int_variable(name, var_value) ==
    IF var_value.ok THEN value_to_int(var_value.v)
    ELSE Err(UndefinedVariable(name))

value_to_int(value) ==
    CASE value.t = "Number" -> Ok(value.n)
      [] value.t = "String" -> parsed_or(parse_i32(value.s), UnexpectedValue(value.s))
      [] value.t = "Variable" ->
            value_to_int_variable(value.name, variables_get(value.name))
      [] value.t = "Boolean" -> Ok(IF value.b THEN 1 ELSE 0)

\* A faulty value_to_bool that takes only the positive numbers as true.
value_to_bool_Positive(value) ==
    CASE value.t = "Boolean" -> Ok(value.b)
      [] value.t = "String" -> Ok(to_uppercase(value.s) = T_TRUE)
      [] value.t = "Number" -> Ok(value.n > 0)
      [] OTHER -> Err(TypeMismatch)

\* Interpreter::value_to_bool.
value_to_bool(value) ==
    CASE value.t = "Boolean" -> Ok(value.b)
      [] value.t = "String" -> Ok(to_uppercase(value.s) = T_TRUE)
      [] value.t = "Number" -> Ok(value.n # 0)
      [] OTHER -> Err(TypeMismatch)

\* format!("{:?}", Some(value)): the Debug text of an Option<&Value> (a
\* string is shown in quotes; the names of the model need no escapes).
debug_some(value) ==
    <<"S", "o", "m", "e", "(">> \o
    (CASE value.t = "Number" ->
            <<"N", "u", "m", "b", "e", "r", "(">> \o i32_to_string(value.n)
       [] value.t = "String" ->
            <<"S", "t", "r", "i", "n", "g", "(", "\"">> \o value.s \o <<"\"">>
       [] value.t = "Variable" ->
            <<"V", "a", "r", "i", "a", "b", "l", "e", "(", "\"">> \o value.name
                \o <<"\"">>
       [] value.t = "Boolean" ->
            <<"B", "o", "o", "l", "e", "a", "n", "(">> \o bool_to_string(value.b))
    \o <<")", ")">>

\* Interpreter::resolve_variable_value once the two lookups are made: g is
\* the global variable `name`, p the parameter of that name.
resolve_variable_text(name, g, p) ==
    IF g.ok
    THEN CASE g.v.t = "String" -> Ok(g.v.s)
           [] g.v.t = "Number" -> Ok(i32_to_string(g.v.n))
           [] OTHER -> Err(UnexpectedValue(debug_some(g.v)))
    ELSE IF p.ok /\ p.v.t = "String" THEN Ok(p.v.s)
    ELSE IF p.ok /\ p.v.t = "Number" THEN Ok(i32_to_string(p.v.n))
    ELSE Err(UndefinedVariable(name))

\* Interpreter::resolve_variable_value: the text of the global variable
\* `name`, or of a parameter of that name when no global exists.
resolve_variable_value(name) ==
    resolve_variable_text(name, variables_get(name), get_parameter_value(name))

\* Interpreter::value_to_string.
value_to_string(value) ==
    CASE value.t = "String" -> Ok(value.s)
      [] value.t = "Number" -> Ok(i32_to_string(value.n))
      [] value.t = "Variable" -> resolve_variable_value(value.name)
      [] value.t = "Boolean" -> Ok(bool_to_string(value.b))

\* The global value var_value of a variable, followed one level further
\* when it is a string that begins with ':'.
resolve_global(var_value) ==
    IF var_value.t = "String" /\ var_value.s # <<>> /\ Head(var_value.s) = ":"
    THEN IF Tail(var_value.s) \in DOMAIN variables
         THEN Ok(variables[Tail(var_value.s)])
         ELSE Err(UndefinedVariable(Tail(var_value.s)))
    ELSE Ok(var_value)

\* A faulty resolution that prefers the global variable to the parameter.
resolve_variable_GlobalFirst(name, p, g) ==
    IF g.ok THEN resolve_global(g.v)
    ELSE IF p.ok THEN Ok(p.v)
    ELSE Err(UndefinedVariable(name))

\* Interpreter::resolve_value on Variable(name): p is the parameter of that
\* name, g the global variable.
resolve_variable(name, p, g) ==
    IF p.ok THEN Ok(p.v)
    ELSE IF g.ok THEN resolve_global(g.v)
    ELSE Err(UndefinedVariable(name))

\* Interpreter::resolve_value on a String whose upper-cased text is upper.
resolve_string(value, upper) ==
    IF upper = T_TRUE THEN Ok(Boolean(TRUE))
    ELSE IF upper = T_FALSE THEN Ok(Boolean(FALSE))
    ELSE Ok(value)

\* A faulty resolve_value that returns a reference as it is written.
resolve_value_Unresolved(value) ==
    CASE value.t = "String" -> resolve_string(value, to_uppercase(value.s))
      [] OTHER -> Ok(value)

\* Interpreter::resolve_value.
resolve_value(value) ==
    CASE value.t = "Variable" ->
            resolve_variable(value.name, get_parameter_value(value.name),
                             variables_get(value.name))
      [] value.t = "String" -> resolve_string(value, to_uppercase(value.s))
      [] OTHER -> Ok(value)

\* Interpreter::resolve_query.
resolve_query(query) ==
    CASE query = "XCOR" -> Ok(Number(turtle.x))
      [] query = "YCOR" -> Ok(Number(turtle.y))
      [] query = "HEADING" -> Ok(Number(turtle.heading))
      [] query = "COLOR" -> Ok(Number(turtle.color))
      [] OTHER -> Err(InvalidArgument(T_query, query))

\* A faulty evaluation of a literal or a query that returns the value
\* without pushing it.
push_resolved_Unpushed(r, stk) ==
    IF r.ok THEN [ok |-> TRUE, v |-> r.v, stack |-> stk]
    ELSE [ok |-> FALSE, err |-> r.err, stack |-> stk]

\* The result r of resolve_value or resolve_query pushed on stk and
\* returned, or its error.
push_resolved(r, stk) ==
    IF r.ok THEN [ok |-> TRUE, v |-> r.v, stack |-> stack_push(stk, r.v)]
    ELSE [ok |-> FALSE, err |-> r.err, stack |-> stk]

\* Interpreter::evaluate_expression on the operand stack stk: the value and
\* the stack left behind, or the error and the stack left behind.
RECURSIVE evaluate_expression(_, _)

\* A faulty BinaryOp that does not push the two values and lets the
\* operator pop what the evaluation of the operands has left on the stack.
evaluate_apply_Unpushed(op, left_value, right_value) ==
    IF ~right_value.ok THEN right_value
    ELSE apply(op, right_value.stack)

\* BinaryOp once both operands are evaluated: both values are pushed and
\* the operator applied.
evaluate_apply(op, left_value, right_value) ==
    IF ~right_value.ok THEN right_value
    ELSE apply(op, stack_push(stack_push(right_value.stack, left_value.v),
                              right_value.v))

\* BinaryOp once the left operand is evaluated.
evaluate_right(expr, left_value) ==
    IF ~left_value.ok THEN left_value
    ELSE evaluate_apply(expr.op, left_value,
                        evaluate_expression(expr.right, left_value.stack))

evaluate_expression(expr, stk) ==
    CASE expr.e = "Value" -> push_resolved(resolve_value(expr.v), stk)
      [] expr.e = "BinaryOp" ->
            evaluate_right(expr, evaluate_expression(expr.left, stk))
      [] expr.e = "Query" -> push_resolved(resolve_query(expr.query), stk)

\* The conversion r of an evaluated value, with the stack of the evaluation.
converted(value, r) ==
    IF r.ok THEN [ok |-> TRUE, v |-> r.v, stack |-> value.stack]
    ELSE [ok |-> FALSE, err |-> r.err, stack |-> value.stack]

to_int_result(value) ==
    IF ~value.ok THEN value ELSE converted(value, value_to_int(value.v))

to_bool_result(value) ==
    IF ~value.ok THEN value ELSE converted(value, value_to_bool(value.v))

\* An expression evaluated and converted by value_to_int, as the movement,
\* color, heading, position and ADDASSIGN commands do.
evaluate_int(expr, stk) == to_int_result(evaluate_expression(expr, stk))

\* An expression evaluated and converted by value_to_bool, as IF and WHILE do.
evaluate_bool(expr, stk) == to_bool_result(evaluate_expression(expr, stk))

(***************************************************************************)
(* The parser (rs_parser.rs), from the token level on. A written program   *)
(* is a sequence of commands in which an ADDASSIGN target and the          *)
(* parameters of a TO are still the tokens of the source text, prefix      *)
(* included; everything else is already the node the parser builds.        *)
(***************************************************************************)
\* preceded(char('"') or char(':'), take_while1(..)): the token without its
\* one-character prefix.
strip_sigil(token) == Tail(token)

RECURSIVE parse_command(_)
parse_command(w) ==
    CASE w.c = "AddAssign" -> AddAssign(strip_sigil(w.name), w.expr)
      [] w.c = "ProcedureDefinition" ->
            ProcedureDefinition(w.name,
                [i \in 1..Len(w.parameters) |-> strip_sigil(w.parameters[i])],
                [i \in 1..Len(w.body) |-> parse_command(w.body[i])])
      [] w.c = "If" ->
            If(w.condition, [i \in 1..Len(w.body) |-> parse_command(w.body[i])])
      [] w.c = "While" ->
            While(w.condition, [i \in 1..Len(w.body) |-> parse_command(w.body[i])])
      [] OTHER -> w

\* parse_program: the commands of a written program, in order.
parse_program(src) == [i \in 1..Len(src) |-> parse_command(src[i])]

(***************************************************************************)
(* The parser on text (rs_parser.rs). A text is the sequence of its        *)
(* tokens, the maximal runs of characters other than white space, with the *)
(* token NL for every line break; two tokens that follow each other are    *)
(* separated by white space, and so are a bracket and its neighbours. A    *)
(* nom parser is taken at the tokens on which it consumes a whole token or *)
(* fails; texts have no comments. A position is the index of the next      *)
(* token to read.                                                          *)
(***************************************************************************)
NL == <<"\n">>
T_PENUP == <<"P", "E", "N", "U", "P">>
T_PENDOWN == <<"P", "E", "N", "D", "O", "W", "N">>
T_FORWARD == <<"F", "O", "R", "W", "A", "R", "D">>
T_BACK == <<"B", "A", "C", "K">>
T_LEFT == <<"L", "E", "F", "T">>
T_RIGHT == <<"R", "I", "G", "H", "T">>
T_TURN == <<"T", "U", "R", "N">>
T_SETHEADING == <<"S", "E", "T", "H", "E", "A", "D", "I", "N", "G">>
T_SETX == <<"S", "E", "T", "X">>
T_SETY == <<"S", "E", "T", "Y">>
T_MAKE == <<"M", "A", "K", "E">>
T_ADDASSIGN == <<"A", "D", "D", "A", "S", "S", "I", "G", "N">>
T_IF == <<"I", "F">>
T_WHILE == <<"W", "H", "I", "L", "E">>
T_TO == <<"T", "O">>
T_END == <<"E", "N", "D">>
T_XCOR == <<"X", "C", "O", "R">>
T_YCOR == <<"Y", "C", "O", "R">>
T_HEADING == <<"H", "E", "A", "D", "I", "N", "G">>
T_COLOR == <<"C", "O", "L", "O", "R">>
T_OPEN == <<"[">>
T_CLOSE == <<"]">>
T_EMPTY_BLOCK == <<"[", "]">>

\* char::is_alphanumeric or '_'.
NameChars ==
    {Digits[i] : i \in 1..10} \cup {LowerLetters[i] : i \in 1..26}
    \cup {UpperLetters[i] : i \in 1..26}
    \cup {LowerLatin[i] : i \in 1..30} \cup {UpperLatin[i] : i \in 1..30}
    \cup {SharpS, YDiaeresis, MicroSign, LongS, DotlessI} \cup Caseless
    \cup {"_"}

\* take_while1 over the characters of `chars` consumes the whole of s.
IsWord(s, chars) == s # <<>> /\ \A i \in 1..Len(s) : s[i] \in chars

\* recognize(tuple((opt(char('-')), digit1))) consumes the whole of s.
IsNumeral(s) ==
    IsWord(IF s # <<>> /\ Head(s) = "-" THEN Tail(s) ELSE s,
           {Digits[i] : i \in 1..10})

\* multispace0 and multispace1 between tokens: the position of the next
\* token that is not a line break.
RECURSIVE skip_space(_, _)
skip_space(toks, i) ==
    IF i <= Len(toks) /\ toks[i] = NL THEN skip_space(toks, i + 1) ELSE i

\* A nom result: Ok((rest, r)) with the position of the rest, or Err(Error).
Parsed(r, next) == [ok |-> TRUE, r |-> r, next |-> next]
NoParse == [ok |-> FALSE]

\* RSLogoError::ParseError with its message: the format string and the
\* values formatted into it.
EndWithoutTo(line_num) ==
    [kind |-> "ParseError",
     message |-> "Found 'END' command on line {} without matching 'TO' procedure definition.",
     line_num |-> line_num]
Unterminated(name, command_count) ==
    [kind |-> "ParseError",
     message |-> "Unterminated procedure definition '{}': Expected 'END' keyword after {} commands",
     name |-> name, command_count |-> command_count]
NomError == [kind |-> "ParseError", message |-> "Parse error: {}"]

\* map_res(.., s.parse::<i32>().map(Value::Number)).
number_value(parsed) == IF parsed.ok THEN Some(Number(parsed.v)) ELSE None

\* parse_value on a token.
parse_value(token) ==
    IF token = <<>> THEN None
    ELSE CASE Head(token) = "\"" ->
                IF IsWord(Tail(token), NameChars \cup {"-"})
                THEN Some(String(Tail(token))) ELSE None
           [] IsNumeral(token) -> number_value(parse_i32(token))
           [] Head(token) = ":" ->
                IF IsWord(Tail(token), NameChars)
                THEN Some(Variable(Tail(token))) ELSE None
           [] token = T_TRUE -> Some(Boolean(TRUE))
           [] token = T_FALSE -> Some(Boolean(FALSE))
           [] OTHER -> None

\* parse_operator on a token.
OperatorTokens ==
    <<<<"+">>, <<"-">>, <<"*">>, <<"/">>, <<"E", "Q">>, <<"N", "E">>,
      <<"G", "T">>, <<"L", "T">>, <<"A", "N", "D">>, <<"O", "R">>>>
OperatorNames ==
    <<"Add", "Subtract", "Multiply", "Divide", "Equal", "NotEqual",
      "GreaterThan", "LessThan", "And", "Or">>

parse_operator(token) ==
    IF \E k \in 1..10 : OperatorTokens[k] = token
    THEN Some(OperatorNames[CHOOSE k \in 1..10 : OperatorTokens[k] = token])
    ELSE None

QueryTokens == <<T_XCOR, T_YCOR, T_HEADING, T_COLOR>>
QueryNames == <<"XCOR", "YCOR", "HEADING", "COLOR">>

\* parse_expression at position i: a value, an operator with its two
\* operand expressions, or a query.
RECURSIVE parse_expression(_, _)

binary_right(op, left, right) ==
    IF ~right.ok THEN NoParse
    ELSE Parsed(BinaryOp(op, left.r, right.r), right.next)

binary_left(toks, op, left) ==
    IF ~left.ok THEN NoParse
    ELSE binary_right(op, left, parse_expression(toks, skip_space(toks, left.next)))

expression_at(toks, i, value, op) ==
    IF value.ok THEN Parsed(EValue(value.v), i + 1)
    ELSE IF op.ok
    THEN binary_left(toks, op.v, parse_expression(toks, skip_space(toks, i + 1)))
    ELSE IF \E k \in 1..4 : QueryTokens[k] = toks[i]
    THEN Parsed(Query(QueryNames[CHOOSE k \in 1..4 : QueryTokens[k] = toks[i]]), i + 1)
    ELSE NoParse

parse_expression(toks, i) ==
    IF i > Len(toks) THEN NoParse
    ELSE expression_at(toks, i, parse_value(toks[i]), parse_operator(toks[i]))

\* many0(preceded(multispace1, parse_expression)) from position j on: the
\* expressions and the position after the last one.
RECURSIVE many_expressions(_, _, _)

many_next(toks, j, acc, expr) ==
    IF ~expr.ok THEN Parsed(acc, j)
    ELSE many_expressions(toks, expr.next, Append(acc, expr.r))

many_expressions(toks, j, acc) ==
    many_next(toks, j, acc, parse_expression(toks, skip_space(toks, j)))

\* parse_procedure_call at position i: a name other than TO and END, then
\* as many argument expressions as follow.
call_named(name, arguments) ==
    Parsed(Ok(ProcedureCall(name, arguments.r)), arguments.next)

parse_procedure_call(toks, i) ==
    IF ~IsWord(toks[i], NameChars) \/ toks[i] \in {T_TO, T_END} THEN NoParse
    ELSE call_named(toks[i], many_expressions(toks, i + 1, <<>>))

\* The fixed-arity commands: the keywords and the node each builds.
NoArgumentKeywords == {T_PENUP, T_PENDOWN}
OneArgumentKeywords ==
    {T_FORWARD, T_BACK, T_LEFT, T_RIGHT, T_SETPENCOLOR, T_TURN, T_SETHEADING,
     T_SETX, T_SETY}

command_of(keyword, expr) ==
    CASE keyword = T_PENUP -> PenUp
      [] keyword = T_PENDOWN -> PenDown
      [] keyword = T_FORWARD -> Forward(expr)
      [] keyword = T_BACK -> Back(expr)
      [] keyword = T_LEFT -> Left(expr)
      [] keyword = T_RIGHT -> Right(expr)
      [] keyword = T_SETPENCOLOR -> SetPenColor(expr)
      [] keyword = T_TURN -> Turn(expr)
      [] keyword = T_SETHEADING -> SetHeading(expr)
      [] keyword = T_SETX -> SetX(expr)
      [] keyword = T_SETY -> SetY(expr)

\* The closure of a command's alternative: opt(preceded(multispace1,
\* parse_expression)) has found one expression too many, or none; `next`
\* is the position after the command proper.
extra_argument(keyword, command, next, extra) ==
    IF extra.ok
    THEN Parsed(Err(InvalidArgument(keyword, <<>>)), extra.next)
    ELSE Parsed(Ok(command), next)

\* A keyword with one argument, once its expression is tried. When the
\* alternative of a keyword fails, none of the later alternatives but the
\* last applies to the keyword: it is read as the name of a procedure.
one_argument(toks, i, expr) ==
    IF ~expr.ok THEN parse_procedure_call(toks, i)
    ELSE extra_argument(toks[i], command_of(toks[i], expr.r), expr.next,
                        parse_expression(toks, skip_space(toks, expr.next)))

\* parse_make_command once its two expressions are tried.
make_value_parsed(toks, i, name_expr, value_expr) ==
    IF ~value_expr.ok THEN parse_procedure_call(toks, i)
    ELSE Parsed(Ok(Make(name_expr.r, value_expr.r)), value_expr.next)

parse_make_command(toks, i, name_expr) ==
    IF ~name_expr.ok THEN parse_procedure_call(toks, i)
    ELSE make_value_parsed(toks, i, name_expr,
                           parse_expression(toks, skip_space(toks, name_expr.next)))

\* ADDASSIGN: a name written with either prefix, kept without it, then one
\* expression.
addassign_parsed(toks, i, target, expr) ==
    IF ~expr.ok THEN parse_procedure_call(toks, i)
    ELSE extra_argument(toks[i], AddAssign(strip_sigil(target), expr.r), expr.next,
                        parse_expression(toks, skip_space(toks, expr.next)))

parse_addassign(toks, i, j) ==
    IF j > Len(toks) \/ Head(toks[j]) \notin {"\"", ":"}
       \/ ~IsWord(Tail(toks[j]), NameChars)
    THEN parse_procedure_call(toks, i)
    ELSE addassign_parsed(toks, i, toks[j],
                          parse_expression(toks, skip_space(toks, j + 1)))

\* Result<Vec<_>, _>::from_iter: the first error of the results, or the
\* values of all of them.
collect(results) ==
    IF \E k \in 1..Len(results) : ~results[k].ok
    THEN results[CHOOSE k \in 1..Len(results) :
                    ~results[k].ok /\ \A j \in 1..(k - 1) : results[j].ok]
    ELSE Ok([k \in 1..Len(results) |-> results[k].v])

RECURSIVE parse_command_text(_, _)
RECURSIVE block_commands(_, _, _)

\* many0(delimited(multispace0, parse_command, multispace0)) from position
\* j on: the results and the position where no command is found.
block_next(toks, j, acc, r) ==
    IF ~r.ok THEN Parsed(acc, j)
    ELSE block_commands(toks, skip_space(toks, r.next), Append(acc, r.r))

block_commands(toks, j, acc) ==
    block_next(toks, j, acc, parse_command_text(toks, skip_space(toks, j)))

\* parse_command_block once the commands are read: char(']') follows. With
\* no command read the white space after '[' is still there and char(']')
\* fails on it.
block_closed(toks, commands) ==
    IF commands.r = <<>> \/ commands.next > Len(toks)
       \/ toks[commands.next] # T_CLOSE
    THEN NoParse
    ELSE Parsed(collect(commands.r), commands.next + 1)

parse_command_block(toks, j) ==
    IF j > Len(toks) THEN NoParse
    ELSE IF toks[j] = T_EMPTY_BLOCK THEN Parsed(Ok(<<>>), j + 1)
    ELSE IF toks[j] # T_OPEN THEN NoParse
    ELSE block_closed(toks, block_commands(toks, j + 1, <<>>))

\* parse_if_command and parse_while_command: body.map(|b| If(condition, b)).
conditional_of(keyword, condition, body) ==
    IF ~body.ok THEN body
    ELSE IF keyword = T_IF THEN Ok(If(condition, body.v))
    ELSE Ok(While(condition, body.v))

conditional_block(toks, i, condition, block) ==
    IF ~block.ok THEN parse_procedure_call(toks, i)
    ELSE Parsed(conditional_of(toks[i], condition.r, block.r), block.next)

parse_conditional(toks, i, condition) ==
    IF ~condition.ok THEN parse_procedure_call(toks, i)
    ELSE conditional_block(toks, i, condition,
                           parse_command_block(toks, skip_space(toks, condition.next)))

\* The last two alternatives: an expression as a command, or a call.
expression_or_call(toks, i, expr) ==
    IF expr.ok THEN Parsed(Ok(ExpressionCmd(expr.r)), expr.next)
    ELSE parse_procedure_call(toks, i)

\* parse_regular_command at position i <= Len(toks).
parse_regular_command(toks, i) ==
    CASE toks[i] \in NoArgumentKeywords ->
            extra_argument(toks[i], command_of(toks[i], <<>>), i + 1,
                           parse_expression(toks, skip_space(toks, i + 1)))
      [] toks[i] \in OneArgumentKeywords ->
            one_argument(toks, i, parse_expression(toks, skip_space(toks, i + 1)))
      [] toks[i] = T_MAKE ->
            parse_make_command(toks, i, parse_expression(toks, skip_space(toks, i + 1)))
      [] toks[i] = T_ADDASSIGN -> parse_addassign(toks, i, skip_space(toks, i + 1))
      [] toks[i] \in {T_IF, T_WHILE} ->
            parse_conditional(toks, i, parse_expression(toks, skip_space(toks, i + 1)))
      [] OTHER -> expression_or_call(toks, i, parse_expression(toks, i))

\* parse_parameter on a token: the name without its prefix.
parse_parameter(token) ==
    IF token # <<>> /\ Head(token) \in {":", "\""} /\ IsWord(Tail(token), NameChars)
    THEN Some(strip_sigil(token)) ELSE None

\* The parameter loop of parse_procedure_definition from position j on.
RECURSIVE definition_parameters(_, _, _)

parameter_next(toks, j, acc, next, param) ==
    IF ~param.ok THEN Parsed(acc, j)
    ELSE definition_parameters(toks, next + 1, Append(acc, param.v))

parameter_at(toks, j, acc, next) ==
    IF next > Len(toks) THEN Parsed(acc, j)
    ELSE parameter_next(toks, j, acc, next, parse_parameter(toks[next]))

definition_parameters(toks, j, acc) == parameter_at(toks, j, acc, skip_space(toks, j))

\* A faulty count of the body commands that leaves the last one out.
unterminated_OneLess(name, commands) ==
    Err(Unterminated(name, IF commands = <<>> THEN 0 ELSE Len(commands) - 1))

\* The error of a definition whose body loop ends without END.
unterminated(name, commands) == Err(Unterminated(name, Len(commands)))

\* The body loop of parse_procedure_definition, with current_pos = j: END
\* ends the definition; a command is added to the body, and the loop goes
\* on unless only white space is left; anything else is a break.
RECURSIVE definition_body(_, _, _, _, _)

body_next(toks, j, name, parameters, acc, r) ==
    IF ~r.ok THEN Parsed(unterminated(name, acc), j)
    ELSE IF ~r.r.ok THEN Parsed(unterminated(name, acc), j)
    ELSE IF skip_space(toks, r.next) > Len(toks)
    THEN Parsed(unterminated(name, Append(acc, r.r.v)), r.next)
    ELSE definition_body(toks, r.next, name, parameters, Append(acc, r.r.v))

body_at(toks, j, name, parameters, acc, next) ==
    IF next > Len(toks) THEN Parsed(unterminated(name, acc), j)
    ELSE IF toks[next] = T_END
    THEN Parsed(Ok(ProcedureDefinition(name, parameters, acc)), next + 1)
    ELSE body_next(toks, j, name, parameters, acc, parse_regular_command(toks, next))

definition_body(toks, j, name, parameters, acc) ==
    body_at(toks, j, name, parameters, acc, skip_space(toks, j))

\* The white space after the name and the parameters is consumed before
\* the body loop starts.
definition_named(toks, name, parameters) ==
    definition_body(toks, skip_space(toks, parameters.next), name, parameters.r, <<>>)

\* parse_procedure_definition at a token TO: the name, the parameters, the
\* body.
definition_name(toks, j) ==
    IF j > Len(toks) THEN NoParse
    ELSE IF ~IsWord(toks[j], NameChars) THEN NoParse
    ELSE definition_named(toks, toks[j], definition_parameters(toks, j + 1, <<>>))

parse_procedure_definition(toks, i) == definition_name(toks, skip_space(toks, i + 1))

\* The line number parse_command reports for an END: one more than the
\* line breaks in the text the tag has consumed, which is the word END.
count_newlines(text) == Cardinality({k \in 1..Len(text) : text[k] = "\n"})

end_line_num(toks, i) == count_newlines(toks[i]) + 1

\* alt((parse_procedure_definition, parse_regular_command)).
definition_or_regular(toks, i, definition) ==
    IF definition.ok THEN definition ELSE parse_regular_command(toks, i)

\* parse_command at position i.
parse_command_text(toks, i) ==
    IF i > Len(toks) THEN NoParse
    ELSE IF toks[i] = T_END THEN Parsed(Err(EndWithoutTo(end_line_num(toks, i))), i + 1)
    ELSE IF toks[i] = T_TO
    THEN definition_or_regular(toks, i, parse_procedure_definition(toks, i))
    ELSE parse_regular_command(toks, i)

\* The many0 of parse_program from position j on: the results of the
\* commands up to the end of the text, or the error of all_consuming where
\* no command is found.
RECURSIVE program_items(_, _, _)

item_next(toks, acc, r) ==
    IF ~r.ok THEN Err(NomError)
    ELSE program_items(toks, r.next, Append(acc, r.r))

item_at(toks, acc, next) ==
    IF next > Len(toks) THEN Ok(acc)
    ELSE item_next(toks, acc, parse_command_text(toks, next))

program_items(toks, j, acc) == item_at(toks, acc, skip_space(toks, j))

program_collected(items) == IF ~items.ok THEN items ELSE collect(items.v)

\* parse_program on a text: the commands, or the first error.
parse_program_text(toks) ==
    IF skip_space(toks, 1) > Len(toks) THEN Ok(<<>>)
    ELSE program_collected(program_items(toks, 1, <<>>))

(***************************************************************************)
(* The evaluator: what one execute_command does. Each outcome is the error *)
(* (or none), the operand stack left behind and the state it wrote.        *)
(***************************************************************************)
Running == [kind |-> "Running"]
Finished == [kind |-> "Ok"]

\* A command that failed with err, leaving the operand stack stk.
failed(err, stk) == [ok |-> FALSE, err |-> err, stack |-> stk]

\* The conversion Command::Make applies before it stores: a String that
\* parses as an i32 becomes a Number.
make_converted(value, parsed) == IF parsed.ok THEN Number(parsed.v) ELSE value

make_stored(value) ==
    IF value.t = "String" THEN make_converted(value, parse_i32(value.s)) ELSE value

\* Command::Make once name and value are evaluated and the name converted.
make_store(value, name_str) ==
    IF ~name_str.ok THEN failed(name_str.err, value.stack)
    ELSE [ok |-> TRUE, stack |-> value.stack,
          variables |-> variables_set(variables, name_str.v, make_stored(value.v))]

\* Command::Make once the name is evaluated and the value tried.
make_value(name, value) ==
    IF ~value.ok THEN failed(value.err, value.stack)
    ELSE make_store(value, value_to_string(name.v))

\* Command::Make once the name is tried.
make_name(cmd, name) ==
    IF ~name.ok THEN failed(name.err, name.stack)
    ELSE make_value(name, evaluate_expression(cmd.value, name.stack))

\* Command::Make.
make_outcome(cmd) == make_name(cmd, evaluate_expression(cmd.name, stack))

\* The name Command::AddAssign adds to when `name` has no ':' prefix:
\* the string the variable `name` holds, else `name` itself.
addassign_plain_name(name, var_value) ==
    IF var_value.ok /\ var_value.v.t = "String" THEN Ok(var_value.v.s) ELSE Ok(name)

\* The name of the variable Command::AddAssign(name, _) adds to.
addassign_var_name(name) ==
    IF name # <<>> /\ Head(name) = ":"
    THEN resolve_variable_value(Tail(name))
    ELSE addassign_plain_name(name, variables_get(name))

\* A faulty sum that may lose the amount.
unchecked_add_Lossy(a, b) ==
    IF checked_add(a, b).ok THEN {Ok(a + b), Ok(a)}
    ELSE {Err(Panic), Ok(wrapping_add(a, b))}

\* The outcomes of the unchecked `current_amount + amount`: the sum when it
\* is in range; otherwise the build decides, a panic (overflow checks on)
\* or the wrapped sum (overflow checks off).
unchecked_add(a, b) ==
    IF checked_add(a, b).ok THEN {Ok(a + b)}
    ELSE {Err(Panic), Ok(wrapping_add(a, b))}

\* Command::AddAssign once the sum new_value is made (or has panicked).
addassign_store(var_name, new_value, stk) ==
    IF ~new_value.ok THEN failed(new_value.err, stk)
    ELSE [ok |-> TRUE, stack |-> stk,
          variables |-> variables_set(variables, var_name, Number(new_value.v))]

\* Command::AddAssign once the current value is converted.
addassign_sum(var_name, amount, current_amount) ==
    IF ~current_amount.ok THEN {failed(current_amount.err, amount.stack)}
    ELSE {addassign_store(var_name, new_value, amount.stack) :
             new_value \in unchecked_add(current_amount.v, amount.v)}

\* A faulty AddAssign that takes a variable that does not exist as 0.
addassign_current_Default(var_name, amount) ==
    IF ~var_name.ok THEN {failed(var_name.err, amount.stack)}
    ELSE IF var_name.v \notin DOMAIN variables
    THEN addassign_sum(var_name.v, amount, Ok(0))
    ELSE addassign_sum(var_name.v, amount, value_to_int(variables[var_name.v]))

\* Command::AddAssign once the name is resolved.
addassign_current(var_name, amount) ==
    IF ~var_name.ok THEN {failed(var_name.err, amount.stack)}
    ELSE IF var_name.v \notin DOMAIN variables
    THEN {failed(UndefinedVariable(var_name.v), amount.stack)}
    ELSE addassign_sum(var_name.v, amount, value_to_int(variables[var_name.v]))

\* Command::AddAssign once the amount is tried.
addassign_amount(cmd, amount) ==
    IF ~amount.ok THEN {failed(amount.err, amount.stack)}
    ELSE addassign_current(addassign_var_name(cmd.name), amount)

\* Command::AddAssign: the set of its possible outcomes.
addassign_outcomes(cmd) == addassign_amount(cmd, evaluate_int(cmd.expr, stack))

\* Forward, Back, Left, Right, Turn, SetHeading, SetX, SetY and SetPenColor
\* on the turtle tu with the integer argument n: the set of the results.
turtle_command(tu, c, n) ==
    CASE c = "Forward" -> turtle_forward(tu, n)
      [] c = "Back" -> turtle_back(tu, n)
      [] c = "Left" -> turtle_left(tu, n)
      [] c = "Right" -> turtle_right(tu, n)
      [] c = "Turn" -> turtle_turn(tu, n)
      [] c = "SetHeading" -> {Ok([tu EXCEPT !.heading = n])}
      [] c = "SetX" -> {Ok([tu EXCEPT !.x = n])}
      [] c = "SetY" -> {Ok([tu EXCEPT !.y = n])}
      [] c = "SetPenColor" ->
            IF n < 0 \/ n > 15
            THEN {Err(InvalidArgument(T_SETPENCOLOR, i32_to_string(n)))}
            ELSE IF n >= COLORS_LEN
            THEN {Err(InvalidArgument(T_SETPENCOLOR, i32_to_string(n)))}
            ELSE {Ok([tu EXCEPT !.color = n])}

\* A turtle command once it has acted (or failed).
turtle_done(r, stk) ==
    IF r.ok THEN [ok |-> TRUE, stack |-> stk, turtle |-> r.v]
    ELSE failed(r.err, stk)

\* A turtle command once its argument is tried.
turtle_argument(cmd, n) ==
    IF ~n.ok THEN {failed(n.err, n.stack)}
    ELSE {turtle_done(r, n.stack) : r \in turtle_command(turtle, cmd.c, n.v)}

\* The commands that take one integer expression and act on the turtle:
\* the set of their possible outcomes.
turtle_outcome(cmd) == turtle_argument(cmd, evaluate_int(cmd.expr, stack))

\* A faulty evaluation of the arguments, last argument first.
RECURSIVE evaluate_args_LastFirst(_, _, _, _)

evaluate_previous_arg(args, k, acc, value) ==
    IF ~value.ok THEN value
    ELSE evaluate_args_LastFirst(args, k + 1, value.stack, <<value.v>> \o acc)

evaluate_args_LastFirst(args, k, stk, acc) ==
    IF k > Len(args) THEN [ok |-> TRUE, v |-> acc, stack |-> stk]
    ELSE evaluate_previous_arg(args, k, acc,
                               evaluate_expression(args[Len(args) + 1 - k], stk))

\* The arguments of a procedure call evaluated in order from args[k] on:
\* the values and the stack, or the first error.
RECURSIVE evaluate_args(_, _, _, _)

evaluate_next_arg(args, k, acc, value) ==
    IF ~value.ok THEN value
    ELSE evaluate_args(args, k + 1, value.stack, Append(acc, value.v))

evaluate_args(args, k, stk, acc) ==
    IF k > Len(args) THEN [ok |-> TRUE, v |-> acc, stack |-> stk]
    ELSE evaluate_next_arg(args, k, acc, evaluate_expression(args[k], stk))

\* Command::ProcedureCall once push_parameters is tried.
call_pushed(procedure, evaluated_args, pushed) ==
    IF ~pushed.ok THEN failed(pushed.err, evaluated_args.stack)
    ELSE [ok |-> TRUE, stack |-> evaluated_args.stack,
          body |-> procedure.body, parameter_stack |-> pushed.v]

\* Command::ProcedureCall once the arguments are tried.
call_arguments(procedure, evaluated_args) ==
    IF ~evaluated_args.ok THEN failed(evaluated_args.err, evaluated_args.stack)
    ELSE call_pushed(procedure, evaluated_args,
                     push_parameters(procedure.parameters, evaluated_args.v))

\* A faulty call that evaluates the arguments before it looks the
\* procedure up.
call_lookup_after(cmd, evaluated_args) ==
    IF ~evaluated_args.ok THEN failed(evaluated_args.err, evaluated_args.stack)
    ELSE IF cmd.name \notin DOMAIN procedures
    THEN failed(InvalidArgument(T_procedure_call, cmd.name), evaluated_args.stack)
    ELSE call_pushed(procedures[cmd.name], evaluated_args,
                     push_parameters(procedures[cmd.name].parameters,
                                     evaluated_args.v))

call_outcome_ArgumentsFirst(cmd) ==
    call_lookup_after(cmd, evaluate_args(cmd.arguments, 1, stack, <<>>))

\* Command::ProcedureCall up to the execution of the body: the body and
\* the parameter stack with the new frame, or the error.
call_outcome(cmd) ==
    IF cmd.name \notin DOMAIN procedures
    THEN failed(InvalidArgument(T_procedure_call, cmd.name), stack)
    ELSE call_arguments(procedures[cmd.name],
                        evaluate_args(cmd.arguments, 1, stack, <<>>))

(***************************************************************************)
(* The programs the model runs.                                            *)
(***************************************************************************)
N_a == <<"a">>
N_b == <<"b">>
N_c == <<"c">>
N_f == <<"f">>
N_g == <<"g">>
N_i == <<"i">>
N_n == <<"n">>
N_q == <<"q">>
N_r == <<"r">>
N_v == <<"v">>
N_x == <<"x">>
N_e_acute == <<"é">>
N_E_acute == <<"É">>
\* false, spelt with a long s.
T_fal_long_s_e == <<"f", "a", "l", LongS, "e">>
N_zz == <<"z", "z">>
N_5 == <<"5">>
N_abc == <<"a", "b", "c">>
N_flag == <<"f", "l", "a", "g">>
N_count == <<"c", "o", "u", "n", "t">>
N_after == <<"a", "f", "t", "e", "r">>
N_result == <<"r", "e", "s", "u", "l", "t">>
N_double == <<"d", "o", "u", "b", "l", "e">>
N_inner == <<"i", "n", "n", "e", "r">>
N_outer == <<"o", "u", "t", "e", "r">>
N_p == <<"p">>
N_foo == <<"f", "o", "o">>
N_nope == <<"n", "o", "p", "e">>

\* The tokens "name and :name of the source text.
Quote(name) == <<"\"">> \o name
Colon(name) == <<":">> \o name

NumE(n) == EValue(Number(n))
StrE(s) == EValue(String(s))
VarE(name) == EValue(Variable(name))
BoolE(b) == EValue(Boolean(b))

\* TO double :n  MAKE "result * :n 2  END  double 21
P_double ==
    <<ProcedureDefinition(N_double, <<Colon(N_n)>>,
          <<Make(StrE(N_result), BinaryOp("Multiply", VarE(N_n), NumE(2)))>>),
      ProcedureCall(N_double, <<NumE(21)>>)>>

\* MAKE "i i0  WHILE LT :i n [ MAKE "i + :i 1 ]
P_while(i0, n) ==
    <<Make(StrE(N_i), NumE(i0)),
      While(BinaryOp("LessThan", VarE(N_i), NumE(n)),
            <<Make(StrE(N_i), BinaryOp("Add", VarE(N_i), NumE(1)))>>)>>

\* The body of the IF programs: MAKE "r 1.
IfBody == <<Make(StrE(N_r), NumE(1))>>

\* IF v [ MAKE "r 1 ]
P_if(v) == <<If(EValue(v), IfBody)>>

\* MAKE "flag v  IF :flag [ MAKE "r 1 ]
P_flag(v) == <<Make(StrE(N_flag), EValue(v)), If(VarE(N_flag), IfBody)>>

\* The literals the IF programs use as conditions and flags.
CondValues ==
    {Boolean(TRUE), Boolean(FALSE), Number(0), Number(1), Number(-2),
     String(T_TRUE), String(T_true), String(<<"T", "r", "u", "E">>),
     String(T_FALSE), String(T_false), String(N_abc), String(<<"1">>),
     String(<<"0">>), String(T_fal_long_s_e)}

\* MAKE "x x0  ADDASSIGN "x amount  MAKE "after 1
P_addassign(x0, amount) ==
    <<Make(StrE(N_x), NumE(x0)), AddAssign(Quote(N_x), NumE(amount)),
      Make(StrE(N_after), NumE(1))>>

AddValues == {I32_MIN, -1, 0, 1, 10, I32_MAX}

\* ADDASSIGN "count 1, alone and after MAKE "count 10.
P_count_undefined == <<AddAssign(Quote(N_count), NumE(1))>>
P_count_ten ==
    <<Make(StrE(N_count), NumE(10)), AddAssign(Quote(N_count), NumE(1))>>

\* MAKE "v 5  ADDASSIGN :v 1
P_colon_number == <<Make(StrE(N_v), NumE(5)), AddAssign(Colon(N_v), NumE(1))>>
\* MAKE "5 7  MAKE "v 5  ADDASSIGN :v 1
P_colon_number_target ==
    <<Make(StrE(N_5), NumE(7)), Make(StrE(N_v), NumE(5)),
      AddAssign(Colon(N_v), NumE(1))>>
\* MAKE "x 5  MAKE "v "x  ADDASSIGN :v 1
P_colon_name ==
    <<Make(StrE(N_x), NumE(5)), Make(StrE(N_v), StrE(N_x)),
      AddAssign(Colon(N_v), NumE(1))>>
\* MAKE "x 5  MAKE "v "x  ADDASSIGN "v 1
P_quote_name ==
    <<Make(StrE(N_x), NumE(5)), Make(StrE(N_v), StrE(N_x)),
      AddAssign(Quote(N_v), NumE(1))>>
\* MAKE "v "x  ADDASSIGN "v 1   (the name v holds is not a variable)
P_quote_name_undefined ==
    <<Make(StrE(N_v), StrE(N_x)), AddAssign(Quote(N_v), NumE(1))>>
\* MAKE "b TRUE  ADDASSIGN "b 1
P_add_to_boolean == <<Make(StrE(N_b), BoolE(TRUE)), AddAssign(Quote(N_b), NumE(1))>>

\* MAKE "x "5  MAKE "r + :x 1
P_string_number ==
    <<Make(StrE(N_x), StrE(N_5)),
      Make(StrE(N_r), BinaryOp("Add", VarE(N_x), NumE(1)))>>

\* MAKE "r op a b
P_arith(op, a, b) == <<Make(StrE(N_r), BinaryOp(op, EValue(a), EValue(b)))>>

ArithOps == {"Add", "Subtract", "Multiply"}
ArithValues ==
    {Number(n) : n \in {I32_MIN, I32_MIN + 1, -65536, -46341, -2, -1, 0, 1, 2, 3,
                         32768, 46340, 46341, 65536, 715827883, 1073741824,
                         I32_MAX - 1, I32_MAX}}
    \cup {String(<<"5">>), String(<<"-", "7">>), String(N_abc), Boolean(TRUE)}

\* The operands of the division programs MAKE "r / a b.
DivideValues ==
    {Number(n) : n \in {I32_MIN, I32_MIN + 1, -7, -2, -1, 0, 1, 2, 7, 10, I32_MAX}}
    \cup {String(<<"0">>), String(<<"5">>), String(N_abc), Boolean(TRUE),
          Boolean(FALSE)}

\* The operands of the equality programs MAKE "r EQ a b.
N_AbC == <<"A", "b", "C">>
N_05 == <<"0", "5">>
EqualValues ==
    {Number(5), Number(-7), Number(0), String(N_5), String(N_05),
     String(<<"-", "7">>), String(N_abc), String(N_AbC), String(N_zz),
     String(N_e_acute), String(N_E_acute), Boolean(TRUE), Boolean(FALSE)}

\* Every place of a to-integer coercion, on one literal operand.
\* c v  MAKE "after 1, for a turtle command c
P_coerce_turtle(c, v) == <<[c |-> c, expr |-> EValue(v)], Make(StrE(N_after), NumE(1))>>
\* MAKE "x 10  ADDASSIGN "x v
P_coerce_addassign(v) ==
    <<Make(StrE(N_x), NumE(10)), AddAssign(Quote(N_x), EValue(v))>>

\* SETHEADING h  c n  MAKE "after 1, for a turtle command c: a turn or a
\* movement at the edge of i32.
P_heading(h, c, n) ==
    <<SetHeading(NumE(h)), [c |-> c, expr |-> NumE(n)], Make(StrE(N_after), NumE(1))>>

\* Turns whose sum is not an i32.
OverflowingTurns == {<<I32_MAX, "Turn", 1>>, <<I32_MIN, "Turn", -1>>}

\* Movements whose direction (heading + 180, heading + 90, heading - 90) is
\* not an i32, in both signs of the magnitude.
OverflowingMoves ==
    {<<2147483596, "Back", 5>>, <<2147483520, "Back", -5>>,
     <<2147483520, "Forward", -5>>, <<2147483610, "Right", 5>>,
     <<2147483610, "Right", -5>>, <<2147483610, "Left", -5>>,
     <<I32_MIN + 10, "Left", 5>>}

\* Movements by i32::MIN, whose negation is not an i32.
OverflowingNegations ==
    {<<0, "Forward", I32_MIN>>, <<0, "Back", I32_MIN>>, <<0, "Left", I32_MIN>>,
     <<0, "Right", I32_MIN>>, <<2147483610, "Right", I32_MIN>>}

\* The programs that draw a line in a direction off the exact range.
OffAxisPrograms == {P_heading(m[1], m[2], m[3]) : m \in OverflowingMoves}

CoercingCommands ==
    {"Forward", "Back", "Left", "Right", "SetPenColor", "Turn", "SetHeading",
     "SetX", "SetY"}
CoercingOps ==
    {"Add", "Subtract", "Multiply", "Divide", "NotEqual", "GreaterThan", "LessThan"}
CoercionValues ==
    {Number(7), Number(-3), Boolean(TRUE), Boolean(FALSE), String(N_5),
     String(<<"-", "7">>), String(N_abc), String(N_AbC)}

\* The other operators, on a few operands.
P_operators ==
    <<Make(StrE(N_a), BinaryOp("Divide", NumE(-7), NumE(2))),
      Make(StrE(N_b), BinaryOp("Equal", StrE(N_abc), StrE(<<"A", "b", "C">>))),
      Make(StrE(N_c), BinaryOp("NotEqual", VarE(N_a), NumE(-3))),
      Make(StrE(N_q), BinaryOp("And", BinaryOp("GreaterThan", NumE(2), NumE(1)),
                               BinaryOp("Or", VarE(N_b), VarE(N_c)))),
      ExpressionCmd(BinaryOp("Divide", NumE(10), NumE(0))),
      Make(StrE(N_after), NumE(1))>>

\* A literal, a reference, a query and a nested operation, each stored.
\* MAKE "x 7  MAKE "a :x  MAKE "b HEADING  MAKE "r - - 9 2 - 4 1
P_push ==
    <<Make(StrE(N_x), NumE(7)), Make(StrE(N_a), VarE(N_x)),
      Make(StrE(N_b), Query("HEADING")),
      Make(StrE(N_r), BinaryOp("Subtract",
                               BinaryOp("Subtract", NumE(9), NumE(2)),
                               BinaryOp("Subtract", NumE(4), NumE(1))))>>

\* An operation on two operations: MAKE "r op opl 9 2 opr 4 1
P_tree(op, opl, opr) ==
    <<Make(StrE(N_r), BinaryOp(op, BinaryOp(opl, NumE(9), NumE(2)),
                                   BinaryOp(opr, NumE(4), NumE(1))))>>

TreeOps == {"Add", "Subtract", "Multiply", "Divide"}

\* Two operands that both fail: MAKE "r + :zz / 1 0 and MAKE "r + / 1 0 :zz
P_fail_left_first ==
    <<Make(StrE(N_r), BinaryOp("Add", VarE(N_zz),
                               BinaryOp("Divide", NumE(1), NumE(0))))>>
P_fail_right_last ==
    <<Make(StrE(N_r), BinaryOp("Add", BinaryOp("Divide", NumE(1), NumE(0)),
                               VarE(N_zz)))>>

\* A body that assigns to the name of its own parameter.
\* TO f :p  MAKE "p v  MAKE "a :p  ADDASSIGN "p 1  MAKE "b :p  END
\* f 7  MAKE "c :p
P_shadow(v) ==
    <<ProcedureDefinition(N_f, <<Colon(N_p)>>,
          <<Make(StrE(N_p), EValue(v)), Make(StrE(N_a), VarE(N_p)),
            AddAssign(Quote(N_p), NumE(1)), Make(StrE(N_b), VarE(N_p))>>),
      ProcedureCall(N_f, <<NumE(7)>>),
      Make(StrE(N_c), VarE(N_p))>>
\* TO f :p  ADDASSIGN "p :p  END  f 7   (no global p)
P_shadow_unset ==
    <<ProcedureDefinition(N_f, <<Colon(N_p)>>, <<AddAssign(Quote(N_p), VarE(N_p))>>),
      ProcedureCall(N_f, <<NumE(7)>>)>>

\* The same body where the global p holds the name of another variable.
\* MAKE "q 10  TO f :p  MAKE "p "q  MAKE "a :p  ADDASSIGN "p 1  MAKE "b :p  END
\* f 7  MAKE "c :p
P_shadow_named == <<Make(StrE(N_q), NumE(10))>> \o P_shadow(String(N_q))

\* Every part of the end of a run, set without a line being drawn.
\* TURN 45  TURN -90  SETX 3  SETY + 1 2  SETPENCOLOR 3
\* MAKE "q + XCOR HEADING  ADDASSIGN "q COLOR
P_pose ==
    <<Turn(NumE(45)), Turn(NumE(-90)), SetX(NumE(3)),
      SetY(BinaryOp("Add", NumE(1), NumE(2))), SetPenColor(NumE(3)),
      Make(StrE(N_q), BinaryOp("Add", Query("XCOR"), Query("HEADING"))),
      AddAssign(Quote(N_q), Query("COLOR"))>>

ShadowValues == {Number(5), Number(-1), String(N_5), Boolean(TRUE), String(N_abc)}

\* A variable written and read back: MAKE "s v  MAKE "r :s
P_roundtrip(s, v) == <<Make(StrE(s), EValue(v)), Make(StrE(N_r), VarE(s))>>

N_True == <<"T", "r", "u", "e">>
N_123 == <<"1", "2", "3">>
N_007 == <<"0", "0", "7">>
RoundTripNames ==
    {N_x, N_abc, N_AbC, N_123, N_007, N_5, T_TRUE, T_true, N_True, T_FALSE, T_false}
RoundTripValues ==
    {Number(7), Boolean(TRUE), Boolean(FALSE), String(N_abc), String(N_5),
     String(<<"-", "7">>), String(T_true), String(T_FALSE)}

\* Procedures calling procedures: which binding of a a body reads.
\* MAKE "a 1  TO inner  MAKE "r :a  END  TO outer :a  inner  END  outer 2
P_scope_outer ==
    <<Make(StrE(N_a), NumE(1)),
      ProcedureDefinition(N_inner, <<>>, <<Make(StrE(N_r), VarE(N_a))>>),
      ProcedureDefinition(N_outer, <<Colon(N_a)>>, <<ProcedureCall(N_inner, <<>>)>>),
      ProcedureCall(N_outer, <<NumE(2)>>)>>
\* TO inner :b  MAKE "r :a  END  TO outer :a  inner 3  END  outer 2
P_scope_outer_only ==
    <<ProcedureDefinition(N_inner, <<Colon(N_b)>>, <<Make(StrE(N_r), VarE(N_a))>>),
      ProcedureDefinition(N_outer, <<Colon(N_a)>>,
          <<ProcedureCall(N_inner, <<NumE(3)>>)>>),
      ProcedureCall(N_outer, <<NumE(2)>>)>>
\* MAKE "a 1  TO f :a  MAKE "r :a  END  f 2
P_scope_innermost ==
    <<Make(StrE(N_a), NumE(1)),
      ProcedureDefinition(N_f, <<Colon(N_a)>>, <<Make(StrE(N_r), VarE(N_a))>>),
      ProcedureCall(N_f, <<NumE(2)>>)>>
\* MAKE "a 1  TO g :b  MAKE "r :a  END  g 2
P_scope_global ==
    <<Make(StrE(N_a), NumE(1)),
      ProcedureDefinition(N_g, <<Colon(N_b)>>, <<Make(StrE(N_r), VarE(N_a))>>),
      ProcedureCall(N_g, <<NumE(2)>>)>>
\* TO g :b  MAKE "r :zz  END  g 2
P_scope_undefined ==
    <<ProcedureDefinition(N_g, <<Colon(N_b)>>, <<Make(StrE(N_r), VarE(N_zz))>>),
      ProcedureCall(N_g, <<NumE(2)>>)>>
\* TO inner :a  MAKE "r :a  END  TO outer :a  inner 3  MAKE "q :a  END  outer 2
P_scope_nested ==
    <<ProcedureDefinition(N_inner, <<Colon(N_a)>>, <<Make(StrE(N_r), VarE(N_a))>>),
      ProcedureDefinition(N_outer, <<Colon(N_a)>>,
          <<ProcedureCall(N_inner, <<NumE(3)>>), Make(StrE(N_q), VarE(N_a))>>),
      ProcedureCall(N_outer, <<NumE(2)>>)>>

\* Programs in which a command fails with commands still to come.
\* IF TRUE [ MAKE "a / 1 0  MAKE "b 1 ]  MAKE "c 1
P_error_in_if ==
    <<If(BoolE(TRUE), <<Make(StrE(N_a), BinaryOp("Divide", NumE(1), NumE(0))),
                        Make(StrE(N_b), NumE(1))>>),
      Make(StrE(N_c), NumE(1))>>
\* MAKE "i 0  WHILE LT :i 3 [ MAKE "i + :i 1  FORWARD :zz  MAKE "b 1 ]  MAKE "c 1
P_error_in_while ==
    <<Make(StrE(N_i), NumE(0)),
      While(BinaryOp("LessThan", VarE(N_i), NumE(3)),
            <<Make(StrE(N_i), BinaryOp("Add", VarE(N_i), NumE(1))),
              Forward(VarE(N_zz)), Make(StrE(N_b), NumE(1))>>),
      Make(StrE(N_c), NumE(1))>>
\* TO f  SETPENCOLOR 16  MAKE "b 1  END  f  MAKE "c 1
P_error_in_call ==
    <<ProcedureDefinition(N_f, <<>>, <<SetPenColor(NumE(16)), Make(StrE(N_b), NumE(1))>>),
      ProcedureCall(N_f, <<>>),
      Make(StrE(N_c), NumE(1))>>
\* nope 1  MAKE "c 1
P_unknown_procedure == <<ProcedureCall(N_nope, <<NumE(1)>>), Make(StrE(N_c), NumE(1))>>
\* TO f :a  MAKE "b 1  END  f 1 2  MAKE "c 1
P_arity ==
    <<ProcedureDefinition(N_f, <<Colon(N_a)>>, <<Make(StrE(N_b), NumE(1))>>),
      ProcedureCall(N_f, <<NumE(1), NumE(2)>>),
      Make(StrE(N_c), NumE(1))>>
\* nope :zz  MAKE "c 1
P_unknown_failing_argument ==
    <<ProcedureCall(N_nope, <<VarE(N_zz)>>), Make(StrE(N_c), NumE(1))>>
\* TO f :a  MAKE "b 1  END  f  MAKE "c 1
P_arity_fewer ==
    <<ProcedureDefinition(N_f, <<Colon(N_a)>>, <<Make(StrE(N_b), NumE(1))>>),
      ProcedureCall(N_f, <<>>),
      Make(StrE(N_c), NumE(1))>>
\* A formal parameter whose name is a variable holding a string.
\* MAKE "p "foo  TO f :p  MAKE "r :foo  END  f 7
P_definition_time ==
    <<Make(StrE(N_p), StrE(N_foo)),
      ProcedureDefinition(N_f, <<Colon(N_p)>>, <<Make(StrE(N_r), VarE(N_foo))>>),
      ProcedureCall(N_f, <<NumE(7)>>)>>
\* MAKE "p "foo  TO f :p  MAKE "r :p  END  f 7
P_definition_time_own ==
    <<Make(StrE(N_p), StrE(N_foo)),
      ProcedureDefinition(N_f, <<Colon(N_p)>>, <<Make(StrE(N_r), VarE(N_p))>>),
      ProcedureCall(N_f, <<NumE(7)>>)>>
\* Arguments that read variables the callee has formal parameters for.
\* MAKE "a 1  TO f :a  MAKE "r :a  END  f + :a 10
P_argument_global ==
    <<Make(StrE(N_a), NumE(1)),
      ProcedureDefinition(N_f, <<Colon(N_a)>>, <<Make(StrE(N_r), VarE(N_a))>>),
      ProcedureCall(N_f, <<BinaryOp("Add", VarE(N_a), NumE(10))>>)>>
\* MAKE "r 0  TO f :n  ADDASSIGN "r :n  IF GT :n 0 [ f - :n 1 ]  END  f 2
P_argument_recursive ==
    <<Make(StrE(N_r), NumE(0)),
      ProcedureDefinition(N_f, <<Colon(N_n)>>,
          <<AddAssign(Quote(N_r), VarE(N_n)),
            If(BinaryOp("GreaterThan", VarE(N_n), NumE(0)),
               <<ProcedureCall(N_f, <<BinaryOp("Subtract", VarE(N_n), NumE(1))>>)>>)>>),
      ProcedureCall(N_f, <<NumE(2)>>)>>
\* MAKE "a 1  MAKE "b 2  TO g :a :b  MAKE "r - :a :b  END  g :b :a
P_argument_swapped ==
    <<Make(StrE(N_a), NumE(1)), Make(StrE(N_b), NumE(2)),
      ProcedureDefinition(N_g, <<Colon(N_a), Colon(N_b)>>,
          <<Make(StrE(N_r), BinaryOp("Subtract", VarE(N_a), VarE(N_b)))>>),
      ProcedureCall(N_g, <<VarE(N_b), VarE(N_a)>>)>>
\* TO g :a :b  MAKE "r 1  END  g :zz / 1 0
P_argument_order ==
    <<ProcedureDefinition(N_g, <<Colon(N_a), Colon(N_b)>>, <<Make(StrE(N_r), NumE(1))>>),
      ProcedureCall(N_g, <<VarE(N_zz), BinaryOp("Divide", NumE(1), NumE(0))>>)>>
\* IF :zz [ PENUP ]  MAKE "c 1
P_error_in_condition == <<If(VarE(N_zz), <<PenUp>>), Make(StrE(N_c), NumE(1))>>

\* The turtle commands and the queries.
P_turtle ==
    <<PenDown, Forward(NumE(10)), Right(NumE(5)), Back(NumE(3)), Left(NumE(-4)),
      Right(NumE(-2)), Turn(NumE(90)), Forward(StrE(<<"7">>)), SetHeading(NumE(180)),
      Back(NumE(-1)), SetX(NumE(5)), SetY(BinaryOp("Add", EValue(Boolean(TRUE)), NumE(5))),
      SetPenColor(NumE(3)), PenUp,
      Make(StrE(N_q), BinaryOp("Add", Query("XCOR"), Query("YCOR"))),
      Make(StrE(N_r), BinaryOp("Add", Query("HEADING"), Query("COLOR"))),
      ExpressionCmd(BinaryOp("Add", NumE(1), NumE(2)))>>

\* WHILE TRUE [ PENUP ]: a loop that never ends.
P_forever == <<While(BoolE(TRUE), <<PenUp>>)>>

Sources ==
    {<<>>, P_double, P_count_undefined, P_count_ten, P_colon_number,
     P_colon_number_target, P_colon_name, P_quote_name, P_quote_name_undefined,
     P_add_to_boolean, P_operators, P_scope_outer, P_scope_outer_only,
     P_scope_innermost, P_scope_global, P_scope_undefined, P_scope_nested,
     P_error_in_if, P_error_in_while, P_error_in_call, P_unknown_procedure,
     P_arity, P_error_in_condition, P_turtle, P_forever, P_string_number,
     P_unknown_failing_argument, P_arity_fewer, P_definition_time,
     P_definition_time_own, P_argument_global, P_argument_recursive,
     P_argument_swapped, P_argument_order, P_push, P_fail_left_first,
     P_fail_right_last, P_shadow_unset, P_shadow_named, P_pose}
    \cup {P_shadow(v) : v \in ShadowValues}
    \cup {P_roundtrip(s, v) : s \in RoundTripNames, v \in RoundTripValues}
    \cup {P_tree(op, opl, opr) : op \in TreeOps, opl \in TreeOps, opr \in TreeOps}
    \cup {P_while(i0, n) : i0 \in 0..MaxLoop, n \in 0..MaxLoop}
    \cup {P_if(v) : v \in CondValues}
    \cup {P_flag(v) : v \in CondValues}
    \cup {P_addassign(x0, amount) : x0 \in AddValues, amount \in AddValues}
    \cup {P_arith(op, a, b) : op \in ArithOps, a \in ArithValues, b \in ArithValues}
    \cup {P_arith("Divide", a, b) : a \in DivideValues, b \in DivideValues}
    \cup {P_arith("Equal", a, b) : a \in EqualValues, b \in EqualValues}
    \cup {P_arith("NotEqual", a, b) : a \in EqualValues, b \in EqualValues}
    \cup {P_coerce_turtle(c, v) : c \in CoercingCommands, v \in CoercionValues}
    \cup {P_heading(m[1], m[2], m[3]) :
              m \in OverflowingTurns \cup OverflowingNegations}
    \cup OffAxisPrograms
    \cup {P_coerce_addassign(v) : v \in CoercionValues}
    \cup {P_arith(op, v, Number(2)) : op \in CoercingOps, v \in CoercionValues}
    \cup {P_arith(op, Number(2), v) : op \in CoercingOps, v \in CoercionValues}

(***************************************************************************)
(* The texts the parser is run on.                                         *)
(***************************************************************************)
Tk_10 == <<"1", "0">>

\* A fixed-arity command as it is written: the keyword, and 10 where it
\* takes an argument.
FixedKeywords == NoArgumentKeywords \cup OneArgumentKeywords
FixedCommand(keyword) ==
    IF keyword \in NoArgumentKeywords THEN <<keyword>> ELSE <<keyword, Tk_10>>

\* One expression too many: 5, :x, + 1 2.
Extras == {<<N_5>>, <<Colon(N_x)>>, <<<<"+">>, <<"1">>, <<"2">>>>}

\* The places a command is written in: alone; between two commands on
\* lines of their own; in the block of an IF on one line; in the block of
\* a WHILE on a line of its own; first in the body of a TO, and second.
Places == {"top", "between", "if", "while", "body", "body second"}
Placed(place, c) ==
    CASE place = "top" -> c
      [] place = "between" -> <<T_PENDOWN, NL>> \o c \o <<NL, T_PENUP>>
      [] place = "if" -> <<T_IF, T_TRUE, T_OPEN>> \o c \o <<T_CLOSE>>
      [] place = "while" -> <<T_WHILE, Colon(N_x), T_OPEN, NL>> \o c \o <<NL, T_CLOSE>>
      [] place = "body" -> <<T_TO, N_f, NL>> \o c \o <<NL, T_END>>
      [] place = "body second" ->
            <<T_TO, N_f, Colon(N_a), NL, T_PENDOWN, NL>> \o c \o <<NL, T_END>>

WellFormedTexts == {Placed(p, FixedCommand(k)) : p \in Places, k \in FixedKeywords}
ExtraTexts ==
    {Placed(p, FixedCommand(k) \o x) : p \in Places, k \in FixedKeywords, x \in Extras}

\* An END that closes no TO, on line 1, 2, 3 or 4: alone, after commands,
\* after empty lines, in a block, after a complete definition.
EndTexts ==
    {<<T_END>>,
     <<T_PENUP, T_END>>,
     <<T_PENUP, NL, T_END>>,
     <<T_PENUP, NL, T_PENDOWN, NL, T_END>>,
     <<NL, NL, T_END>>,
     <<T_IF, T_TRUE, T_OPEN, NL, T_END, NL, T_CLOSE>>,
     <<T_TO, N_f, NL, T_PENUP, NL, T_END, NL, T_END>>}

\* A TO without END: the name, then up to MaxBody commands, each on a line
\* of its own, then the end of the text or one more line break.
MaxBody == 3
BodyLines ==
    {<<T_PENUP>>, <<T_FORWARD, Tk_10>>, <<T_MAKE, Quote(N_x), N_5>>,
     <<T_IF, T_TRUE, T_OPEN, T_PENDOWN, T_CLOSE>>, <<N_g, N_5>>}

RECURSIVE Bodies(_)
Bodies(k) ==
    IF k = 0 THEN {<<>>}
    ELSE {b \o <<NL>> \o l : b \in Bodies(k - 1), l \in BodyLines}

UnterminatedTexts ==
    {<<T_TO, name>> \o params \o b \o end :
        name \in {N_f, N_double}, params \in {<<>>, <<Colon(N_n)>>},
        b \in UNION {Bodies(k) : k \in 0..MaxBody}, end \in {<<>>, <<NL>>}}

\* TO double :n / MAKE "result * :n 2 / END / double 5, as text.
Text_double ==
    <<T_TO, N_double, Colon(N_n), NL,
      T_MAKE, Quote(N_result), <<"*">>, Colon(N_n), <<"2">>, NL,
      T_END, NL,
      N_double, <<"2", "1">>>>

\* Names in letters beyond ASCII: of a variable, of a procedure and of a
\* parameter, and a word that holds such a letter.
UnicodeTexts ==
    {<<T_MAKE, Quote(N_e_acute), <<"1">>>>,
     <<T_MAKE, Quote(N_x), Colon(N_e_acute)>>,
     <<T_MAKE, Quote(N_x), Quote(<<SharpS, "1">>)>>,
     <<T_MAKE, Quote(N_x), Quote(T_fal_long_s_e)>>,
     <<N_e_acute, <<"1">>>>,
     <<T_ADDASSIGN, Quote(N_e_acute), <<"1">>>>,
     <<T_ADDASSIGN, Colon(N_e_acute), <<"1">>>>,
     <<T_TO, N_e_acute, NL, T_PENUP, NL, T_END>>,
     <<T_TO, N_f, Colon(N_e_acute), NL, T_PENUP, NL, T_END>>,
     <<T_TO, N_f, Quote(N_e_acute), NL, T_PENUP, NL, T_END>>}

Texts ==
    WellFormedTexts \cup ExtraTexts \cup EndTexts \cup UnterminatedTexts
    \cup UnicodeTexts \cup {<<>>, <<NL>>, Text_double}

(***************************************************************************)
(* The run: Interpreter::execute and the nested loops of execute_command.  *)
(* cont is the stack of command lists being executed, innermost last; a    *)
(* frame is popped when its list is exhausted. trace lists the commands    *)
(* dispatched so far (a WHILE once per evaluation of its condition).       *)
(***************************************************************************)
Frame(kind, cmds) == [kind |-> kind, cmds |-> cmds, i |-> 1]
Top == cont[Len(cont)]
Cur == Top.cmds[Top.i]

\* The next thing to do is the command Cur, of one of the kinds ks.
AtCommand(ks) ==
    /\ cont # <<>>
    /\ Len(trace) < MaxSteps
    /\ Top.i <= Len(Top.cmds)
    /\ Cur.c \in ks

\* The innermost list is exhausted and is a list of this kind.
AtEnd(kind) ==
    /\ cont # <<>>
    /\ Top.i > Len(Top.cmds)
    /\ Top.kind = kind

\* A faulty `?`: the error is recorded but leaves only the innermost list,
\* so that the enclosing lists go on with their next command.
FailBlock(err) ==
    /\ status' = err
    /\ cont' = SubSeq(cont, 1, Len(cont) - 1)

\* The `?` after execute_command in execute and in every nested loop: the
\* error leaves all the lists being executed at once.
Fail(err) ==
    /\ status' = err
    /\ cont' = <<>>

\* The current command is done; the for loop takes the next one.
Advance ==
    /\ status' = status
    /\ cont' = [cont EXCEPT ![Len(cont)].i = @ + 1]

\* The current command runs the list body before it is done.
Enter(kind, body) ==
    /\ status' = status
    /\ cont' = Append([cont EXCEPT ![Len(cont)].i = @ + 1], Frame(kind, body))

\* The innermost list is done.
Leave ==
    /\ status' = status
    /\ cont' = SubSeq(cont, 1, Len(cont) - 1)

Init ==
    /\ source \in Sources
    /\ cont = <<Frame("top", parse_program(source))>>
    /\ status = Running
    /\ variables = [k \in {} |-> k]
    /\ procedures = [k \in {} |-> k]
    /\ parameter_stack = <<>>
    /\ stack = <<>>
    /\ turtle = turtle_new(ImageSize, ImageSize)
    /\ trace = <<>>

ExecPen ==
    /\ AtCommand({"PenUp", "PenDown"})
    /\ turtle' = [turtle EXCEPT !.pen_down = (Cur.c = "PenDown")]
    /\ Advance
    /\ trace' = Append(trace, Cur)
    /\ UNCHANGED <<source, variables, procedures, parameter_stack, stack>>

\* The turtle command has had the outcome o.
TurtleDone(o) ==
    /\ stack' = o.stack
    /\ IF o.ok THEN turtle' = o.turtle /\ Advance
       ELSE turtle' = turtle /\ Fail(o.err)

ExecTurtle ==
    /\ AtCommand({"Forward", "Back", "Left", "Right", "SetPenColor", "Turn",
                  "SetHeading", "SetX", "SetY"})
    /\ \E o \in turtle_outcome(Cur) : TurtleDone(o)
    /\ trace' = Append(trace, Cur)
    /\ UNCHANGED <<source, variables, procedures, parameter_stack>>

\* The MAKE or ADDASSIGN has had the outcome o.
Stored(o) ==
    /\ stack' = o.stack
    /\ IF o.ok THEN variables' = o.variables /\ Advance
       ELSE variables' = variables /\ Fail(o.err)

ExecMake ==
    /\ AtCommand({"Make"})
    /\ Stored(make_outcome(Cur))
    /\ trace' = Append(trace, Cur)
    /\ UNCHANGED <<source, procedures, parameter_stack, turtle>>

ExecAddAssign ==
    /\ AtCommand({"AddAssign"})
    /\ \E o \in addassign_outcomes(Cur) : Stored(o)
    /\ trace' = Append(trace, Cur)
    /\ UNCHANGED <<source, procedures, parameter_stack, turtle>>

\* The condition of the IF has been evaluated to b.
IfBranch(b) ==
    /\ stack' = b.stack
    /\ IF ~b.ok THEN Fail(b.err)
       ELSE IF b.v THEN Enter("if", Cur.body)
       ELSE Advance

ExecIf ==
    /\ AtCommand({"If"})
    /\ IfBranch(evaluate_bool(Cur.condition, stack))
    /\ trace' = Append(trace, Cur)
    /\ UNCHANGED <<source, variables, procedures, parameter_stack, turtle>>

\* The condition of the WHILE has been evaluated to b: the body is run and
\* the WHILE come back to, or the WHILE is done.
WhileBranch(b) ==
    /\ stack' = b.stack
    /\ IF ~b.ok THEN Fail(b.err)
       ELSE IF b.v
       THEN status' = status /\ cont' = Append(cont, Frame("while", Cur.body))
       ELSE Advance

\* One turn of the loop of Command::While.
ExecWhile ==
    /\ AtCommand({"While"})
    /\ WhileBranch(evaluate_bool(Cur.condition, stack))
    /\ trace' = Append(trace, Cur)
    /\ UNCHANGED <<source, variables, procedures, parameter_stack, turtle>>

\* The expression statement has been evaluated.
Evaluated(value) ==
    /\ stack' = value.stack
    /\ IF value.ok THEN Advance ELSE Fail(value.err)

ExecExpression ==
    /\ AtCommand({"Expression"})
    /\ Evaluated(evaluate_expression(Cur.expr, stack))
    /\ trace' = Append(trace, Cur)
    /\ UNCHANGED <<source, variables, procedures, parameter_stack, turtle>>

ExecProcedureDefinition ==
    /\ AtCommand({"ProcedureDefinition"})
    /\ procedures' = define_procedure(procedures, Cur.name, Cur.parameters, Cur.body)
    /\ Advance
    /\ trace' = Append(trace, Cur)
    /\ UNCHANGED <<source, variables, parameter_stack, stack, turtle>>

\* The call has evaluated its arguments and pushed its frame, or failed.
Called(o) ==
    /\ stack' = o.stack
    /\ IF o.ok
       THEN parameter_stack' = o.parameter_stack /\ Enter("call", o.body)
       ELSE parameter_stack' = parameter_stack /\ Fail(o.err)

ExecProcedureCall ==
    /\ AtCommand({"ProcedureCall"})
    /\ Called(call_outcome(Cur))
    /\ trace' = Append(trace, Cur)
    /\ UNCHANGED <<source, variables, procedures, turtle>>

\* The body of an IF, or one turn of the body of a WHILE, is done.
EndBlock ==
    /\ AtEnd("if") \/ AtEnd("while")
    /\ Leave
    /\ UNCHANGED <<source, variables, procedures, parameter_stack, stack, turtle, trace>>

\* The body of a procedure is done: pop_parameters, then Ok(()).
Return ==
    /\ AtEnd("call")
    /\ parameter_stack' = pop_parameters(parameter_stack)
    /\ Leave
    /\ UNCHANGED <<source, variables, procedures, stack, turtle, trace>>

\* The loop of Interpreter::execute is done: Ok(()).
Finish ==
    /\ AtEnd("top")
    /\ status' = Finished
    /\ cont' = <<>>
    /\ UNCHANGED <<source, variables, procedures, parameter_stack, stack, turtle, trace>>

Next ==
    \/ ExecPen
    \/ ExecTurtle
    \/ ExecMake
    \/ ExecAddAssign
    \/ ExecIf
    \/ ExecWhile
    \/ ExecExpression
    \/ ExecProcedureDefinition
    \/ ExecProcedureCall
    \/ EndBlock
    \/ Return
    \/ Finish

Spec == Init /\ [][Next]_vars

(***************************************************************************)
(* The program run twice (main started twice on the same file with the     *)
(* same width and height): when the first run has ended without an error,  *)
(* what it ended in is put at the head of trace and a new interpreter      *)
(* executes the same program.                                              *)
(***************************************************************************)
\* The record of the end of the first run.
FirstRun(tu, vs) == [c |-> "FirstRun", turtle |-> tu, variables |-> vs]

\* The second run has begun.
Rerun == trace # <<>> /\ trace[1].c = "FirstRun"

\* A faulty second run that executes on the interpreter of the first one:
\* the variables, the procedures and the turtle are not created anew.
Again_SameInterpreter ==
    /\ cont = <<>>
    /\ status = Finished
    /\ ~Rerun
    /\ trace' = <<FirstRun(turtle, variables)>>
    /\ cont' = <<Frame("top", parse_program(source))>>
    /\ status' = Running
    /\ parameter_stack' = <<>>
    /\ stack' = <<>>
    /\ UNCHANGED <<source, variables, procedures, turtle>>

\* Interpreter::new and the call of execute, once more on the same program.
Again ==
    /\ cont = <<>>
    /\ status = Finished
    /\ ~Rerun
    /\ trace' = <<FirstRun(turtle, variables)>>
    /\ cont' = <<Frame("top", parse_program(source))>>
    /\ status' = Running
    /\ variables' = [k \in {} |-> k]
    /\ procedures' = [k \in {} |-> k]
    /\ parameter_stack' = <<>>
    /\ stack' = <<>>
    /\ turtle' = turtle_new(ImageSize, ImageSize)
    /\ UNCHANGED source

TwiceNext == Next \/ Again

TwiceSpec == Init /\ [][TwiceNext]_vars

(***************************************************************************)
(* The parse of a text (main, before the interpreter is created): the      *)
(* program to execute, or the error the process ends with.                 *)
(***************************************************************************)
Unparsed == [kind |-> "Unparsed"]

ParseInit ==
    /\ source \in Texts
    /\ cont = <<>>
    /\ status = Unparsed
    /\ variables = [k \in {} |-> k]
    /\ procedures = [k \in {} |-> k]
    /\ parameter_stack = <<>>
    /\ stack = <<>>
    /\ turtle = turtle_new(ImageSize, ImageSize)
    /\ trace = <<>>

\* parse_program has returned `program`.
Read(program) ==
    IF program.ok
    THEN status' = Running /\ cont' = <<Frame("top", program.v)>>
    ELSE status' = program.err /\ cont' = <<>>

ParseProgram ==
    /\ status = Unparsed
    /\ Read(parse_program_text(source))
    /\ UNCHANGED <<source, variables, procedures, parameter_stack, stack, turtle, trace>>

ParseNext == ParseProgram

ParseSpec == ParseInit /\ [][ParseNext]_vars

(***************************************************************************)
(* Properties.                                                             *)
(***************************************************************************)
\* The run is over: execute has returned, the process has aborted, or a
\* command never returns.
Done == cont = <<>>

\* The status is an error (or an abort), not Running and not Ok(()).
Failed == status.kind \notin {"Running", "Ok"}

\* The global variable `name` exists and holds `value`.
global_is(name, value) == name \in DOMAIN variables /\ variables[name] = value

\* The kinds of command, each dispatched by one action.
CommandKinds ==
    {"PenUp", "PenDown", "Forward", "Back", "Left", "Right", "SetPenColor",
     "Turn", "SetHeading", "SetX", "SetY", "Make", "AddAssign", "If", "While",
     "Expression", "ProcedureDefinition", "ProcedureCall"}

\* The run has a step to take: a command to dispatch or a list to leave.
Ready ==
    \/ AtCommand(CommandKinds)
    \/ AtEnd("if") \/ AtEnd("while") \/ AtEnd("call") \/ AtEnd("top")

\* How many times the command cmd has been dispatched.
Dispatched(cmd) == Cardinality({k \in 1..Len(trace) : trace[k] = cmd})

\* ---- C1 ----
\* The programs in which a command fails with commands still to come, and
\* the error each of them fails with.
ErrorPrograms ==
    {P_error_in_if, P_error_in_while, P_error_in_call, P_unknown_procedure,
     P_arity, P_error_in_condition}

ExpectedError(src) ==
    CASE src = P_error_in_if -> DivisionByZero
      [] src = P_error_in_while -> UndefinedVariable(N_zz)
      [] src = P_error_in_call -> InvalidArgument(T_SETPENCOLOR, <<"1", "6">>)
      [] src = P_unknown_procedure -> InvalidArgument(T_procedure_call, N_nope)
      [] src = P_arity -> InvalidArgument(T_procedure_call, <<"2">> \o T_arguments)
      [] src = P_error_in_condition -> UndefinedVariable(N_zz)

\* C1: once a command has returned an error, nothing more happens: no
\* command after it in program order (in its block, in the procedure body,
\* at top level) is executed, no state changes, and the run ends with
\* exactly that error. In each of the failing programs the run ends with
\* the error of the failing command, and the commands after it (MAKE "b 1
\* in the same list, MAKE "c 1 at top level) have not run.
C1_ErrorAbortsRun ==
    /\ [](Failed => Done)
    /\ [](source \in ErrorPrograms /\ Done =>
            /\ status = ExpectedError(source)
            /\ N_b \notin DOMAIN variables
            /\ N_c \notin DOMAIN variables)
    /\ [][Failed => UNCHANGED vars]_vars

\* The loop body of P_error_in_while has failed on its first turn, in its
\* second command, with the rest of the body, two more turns and a
\* top-level command still to come.
C1_Witness ==
    /\ source = P_error_in_while
    /\ status = UndefinedVariable(N_zz)
    /\ Len(trace) = 4
    /\ variables = (N_i :> Number(1))

\* ---- C2 ----
\* C2: after TO double :n  MAKE "result * :n 2  END and the call double 21,
\* execution has succeeded, the global result holds Number 42, the
\* parameter-frame stack is empty again and n is not a global variable.
C2_DoubleLeavesResult ==
    (source = P_double /\ Done) =>
        /\ status = Finished
        /\ global_is(N_result, Number(42))
        /\ parameter_stack = <<>>
        /\ N_n \notin DOMAIN variables

\* double 21 has run to its end: definition, call and the MAKE of the body.
C2_Witness ==
    /\ source = P_double
    /\ status = Finished
    /\ Len(trace) = 3
    /\ global_is(N_result, Number(42))

\* ---- C3 ----
\* The names the procedure bodies of the model read.
ScopeNames == {N_a, N_b, N_n, N_r, N_zz}

\* The frames that bind x.
BindingFrames(x) == {k \in 1..Len(parameter_stack) : x \in DOMAIN parameter_stack[k]}

\* The greatest element of a non-empty set of numbers.
MaxOf(S) == CHOOSE m \in S : \A k \in S : k <= m

\* The value of the global x, followed once more when it is a string that
\* begins with ':'.
GlobalLookup(x) ==
    IF x \notin DOMAIN variables THEN Err(UndefinedVariable(x))
    ELSE IF variables[x].t = "String" /\ variables[x].s # <<>>
            /\ Head(variables[x].s) = ":"
    THEN IF Tail(variables[x].s) \in DOMAIN variables
         THEN Ok(variables[Tail(variables[x].s)])
         ELSE Err(UndefinedVariable(Tail(variables[x].s)))
    ELSE Ok(variables[x])

\* The lookup with every active frame consulted, the most recent first.
DynamicLookup(x) ==
    IF BindingFrames(x) # {}
    THEN Ok(parameter_stack[MaxOf(BindingFrames(x))][x])
    ELSE GlobalLookup(x)

\* The lookup with the innermost frame alone consulted.
InnermostLookup(x) ==
    IF x \in DOMAIN parameter_stack[Len(parameter_stack)]
    THEN Ok(parameter_stack[Len(parameter_stack)][x])
    ELSE IF x \in DOMAIN variables THEN Ok(variables[x])
    ELSE Err(UndefinedVariable(x))

\* C3 (as amended): while procedure calls are active, a VariableRef x
\* evaluates to the binding of x in the most recently pushed frame that
\* binds x, the frames of the outer, still-active calls included; when no
\* frame binds x, to the value of the global x; when there is none either,
\* to UndefinedVariable naming x. So a body reads the parameter of its
\* caller unless its own frame binds the name.
C3_DynamicScope ==
    /\ parameter_stack # <<>> =>
          \A x \in ScopeNames : resolve_value(Variable(x)) = DynamicLookup(x)
    /\ source = P_scope_outer /\ Done => global_is(N_r, Number(2))
    /\ source = P_scope_outer_only /\ Done => global_is(N_r, Number(2))
    /\ source = P_scope_innermost /\ Done => global_is(N_r, Number(2))
    /\ source = P_scope_global /\ Done => global_is(N_r, Number(1))
    /\ source = P_scope_undefined /\ Done => status = UndefinedVariable(N_zz)
    /\ source = P_scope_nested /\ Done =>
          global_is(N_r, Number(3)) /\ global_is(N_q, Number(2))

\* inner, whose frame binds b alone, has read a: the value is the 2 that the
\* frame of outer binds, with both calls still active.
C3_Witness ==
    /\ source = P_scope_outer_only
    /\ Len(parameter_stack) = 2
    /\ N_a \notin DOMAIN parameter_stack[2]
    /\ global_is(N_r, Number(2))

\* C3 (as written): while procedure calls are active, a VariableRef x
\* evaluates to the binding of x in the innermost frame if that frame binds
\* x, else to the global x (outer frames are not consulted), else to
\* UndefinedVariable naming x.
C3_InnermostFrameOnly ==
    parameter_stack # <<>> =>
        \A x \in ScopeNames : resolve_value(Variable(x)) = InnermostLookup(x)

\* ---- C4 ----
\* The body of the WHILE programs.
WhileBody == Make(StrE(N_i), BinaryOp("Add", VarE(N_i), NumE(1)))

\* The turns WHILE LT :i n takes from i = i0.
Turns(i0, n) == IF n >= i0 THEN n - i0 ELSE 0

\* C4: from i = i0, WHILE LT :i n [ MAKE "i + :i 1 ] terminates: the run
\* dispatches at most 2 * (n - i0) + 2 commands and has a step to take
\* until it is over. Its body has then run exactly n - i0 times when
\* n >= i0 (3 times from 0 to 3) and i = n; the condition has been
\* evaluated once more than the body has run. When n < i0 the body does not
\* run at all.
C4_WhileRunsToBound ==
    \A i0 \in 0..MaxLoop, n \in 0..MaxLoop :
        source = P_while(i0, n) =>
            /\ Dispatched(WhileBody) <= Turns(i0, n)
            /\ Len(trace) <= 2 * Turns(i0, n) + 2
            /\ Done \/ Ready
            /\ Done =>
                 /\ status = Finished
                 /\ Dispatched(WhileBody) = Turns(i0, n)
                 /\ Dispatched(source[2]) = Turns(i0, n) + 1
                 /\ global_is(N_i, Number(IF n >= i0 THEN n ELSE i0))

\* The loop from 0 to 3 has ended after three turns.
C4_Witness ==
    /\ source = P_while(0, 3)
    /\ status = Finished
    /\ Dispatched(WhileBody) = 3
    /\ global_is(N_i, Number(3))

\* ---- C5 ----
\* A value coerces to true: Boolean true, a non-zero Number, a String whose
\* upper-cased text is TRUE.
Truthy(v) ==
    \/ v.t = "Boolean" /\ v.b
    \/ v.t = "Number" /\ v.n # 0
    \/ v.t = "String" /\ to_uppercase(v.s) = T_TRUE

\* What the flag of P_flag(v) holds once stored: the digit strings are
\* stored as Numbers, every other literal keeps its truth value.
FlagTruthy(v) == Truthy(v) \/ v = String(<<"1">>)

\* The body of the IF has run this many times and has had its effect or not.
IfBodyRan(k) ==
    /\ Dispatched(IfBody[1]) = k
    /\ (k = 1) = global_is(N_r, Number(1))

\* C5: an IF runs its body exactly once when its condition coerces to true
\* (Boolean true, a non-zero Number, a String whose upper-cased text is
\* TRUE) and not at all otherwise, for a literal condition and for a flag
\* read from a variable: after MAKE "flag "TRUE the body of IF :flag runs,
\* after MAKE "flag "FALSE it does not.
C5_IfRunsBodyOnceIffTrue ==
    \A v \in CondValues :
        /\ source \in {P_if(v), P_flag(v)} => Dispatched(IfBody[1]) <= 1
        /\ source = P_if(v) /\ Done =>
              status = Finished /\ IfBodyRan(IF Truthy(v) THEN 1 ELSE 0)
        /\ source = P_flag(v) /\ Done =>
              status = Finished /\ IfBodyRan(IF FlagTruthy(v) THEN 1 ELSE 0)

\* After MAKE "flag "TRUE the IF has run its body once.
C5_Witness ==
    /\ source = P_flag(String(T_TRUE))
    /\ status = Finished
    /\ global_is(N_flag, Boolean(TRUE))
    /\ Dispatched(IfBody[1]) = 1
    /\ global_is(N_r, Number(1))

\* ---- C6 ----
\* A String that set would have turned into a Boolean or a Number.
Normalisable(v) ==
    /\ v.t = "String"
    /\ to_uppercase(v.s) \in {T_TRUE, T_FALSE} \/ parse_i32(v.s).ok

\* C6: in every reachable state no global variable holds a String that
\* equals TRUE or FALSE case-insensitively or that parses as a 32-bit
\* integer; after MAKE "x "5 the global x holds Number 5, and + :x 1 is 6.
C6_GlobalsAreNormalised ==
    /\ \A k \in DOMAIN variables : ~Normalisable(variables[k])
    /\ source = P_string_number /\ Len(trace) >= 1 => global_is(N_x, Number(5))
    /\ source = P_string_number /\ Done =>
          status = Finished /\ global_is(N_r, Number(6))

\* MAKE "x "5 has stored a Number, and the sum that reads :x has been made.
C6_Witness ==
    /\ source = P_string_number
    /\ status = Finished
    /\ global_is(N_x, Number(5))
    /\ global_is(N_r, Number(6))

\* ---- C7 ----
\* C7: ADDASSIGN "count 1 with no global count fails with UndefinedVariable
\* naming count and leaves the global environment as it was (empty); after
\* MAKE "count 10 it succeeds and count holds Number 11.
C7_AddAssignNeedsVariable ==
    /\ source = P_count_undefined /\ Done =>
          /\ status = UndefinedVariable(N_count)
          /\ DOMAIN variables = {}
    /\ source = P_count_ten /\ Done =>
          /\ status = Finished
          /\ global_is(N_count, Number(11))
          /\ DOMAIN variables = {N_count}

\* ADDASSIGN "count 1 has failed on the undefined count.
C7_Witness ==
    /\ source = P_count_undefined
    /\ Len(trace) = 1
    /\ status = UndefinedVariable(N_count)
    /\ DOMAIN variables = {}

\* ---- C8 ----
\* C8 (as written): the target of ADDASSIGN follows the three-way rule.
\* Written :v, the target is the name that v holds: with v = 5 the target
\* is the variable 5 (undefined: an error; defined: incremented) and v
\* itself is not incremented; with v = "x the target is x. Written "v with
\* v holding the string x, the target is x. Otherwise the target is the
\* written name.
C8_ThreeWayTarget ==
    /\ source = P_colon_number /\ Done =>
          status = UndefinedVariable(N_5) /\ global_is(N_v, Number(5))
    /\ source = P_colon_number_target /\ Done =>
          /\ status = Finished
          /\ global_is(N_5, Number(8))
          /\ global_is(N_v, Number(5))
    /\ source = P_colon_name /\ Done =>
          /\ status = Finished
          /\ global_is(N_x, Number(6))
          /\ global_is(N_v, String(N_x))
    /\ source = P_quote_name /\ Done =>
          /\ status = Finished
          /\ global_is(N_x, Number(6))
          /\ global_is(N_v, String(N_x))
    /\ source = P_quote_name_undefined /\ Done => status = UndefinedVariable(N_x)
    /\ source = P_add_to_boolean /\ Done =>
          status = Finished /\ global_is(N_b, Number(2))

\* MAKE "v 5  ADDASSIGN :v 1 has incremented v itself.
C8_Witness ==
    /\ source = P_colon_number
    /\ status = Finished
    /\ global_is(N_v, Number(6))

\* ---- Exact integer arithmetic, on limbs small enough never to leave the
\* range of the checker's own integers. ----
Limb == 256 * 256

\* A number given as hi * Limb + lo, 0 <= lo < Limb: whether it is an i32,
\* and which.
FromLimbs(hi, lo) ==
    [fits |-> hi >= -32768 /\ hi <= 32767,
     v |-> IF hi >= -32768 /\ hi <= 32767 THEN hi * Limb + lo ELSE 0]

\* a + b.
ExactAdd(a, b) ==
    LET lo == (a % Limb) + (b % Limb)
    IN  FromLimbs((a \div Limb) + (b \div Limb) + (lo \div Limb), lo % Limb)

\* a - b.
ExactSub(a, b) ==
    LET lo == (a % Limb) - (b % Limb)
    IN  FromLimbs((a \div Limb) - (b \div Limb) + (lo \div Limb), lo % Limb)

\* The four base-256 digits of |a|, least significant first.
MagDigits(a) ==
    LET d0 == IF a < 0 THEN (256 - (a % 256)) % 256 ELSE a % 256
        rest == IF a < 0 THEN -((a + d0) \div 256) ELSE a \div 256
    IN  <<d0, rest % 256, (rest \div 256) % 256, rest \div 65536>>

\* x[i] * y[j], or 0 when y has no digit j.
DigitProduct(x, y, i, j) == IF j >= 1 /\ j <= 4 THEN x[i] * y[j] ELSE 0

\* Column k of the schoolbook product of x and y.
Column(x, y, k) ==
    DigitProduct(x, y, 1, k) + DigitProduct(x, y, 2, k - 1)
        + DigitProduct(x, y, 3, k - 2) + DigitProduct(x, y, 4, k - 3)

\* The eight base-256 digits of the product of x and y from column k on.
RECURSIVE ProductDigits(_, _, _, _)
ProductDigits(x, y, k, carry) ==
    IF k > 7 THEN <<carry>>
    ELSE <<(Column(x, y, k) + carry) % 256>>
            \o ProductDigits(x, y, k + 1, (Column(x, y, k) + carry) \div 256)

\* The number of sign `negative` and magnitude d (eight digits).
FromMagnitude(negative, d) ==
    LET high == d[5] = 0 /\ d[6] = 0 /\ d[7] = 0 /\ d[8] = 0
        fits == high /\ (\/ d[4] < 128
                         \/ negative /\ d[4] = 128 /\ d[1] = 0 /\ d[2] = 0 /\ d[3] = 0)
    IN  [fits |-> fits,
         v |-> IF ~fits THEN 0
               ELSE IF negative THEN ((-d[4] * 256 - d[3]) * 256 - d[2]) * 256 - d[1]
               ELSE ((d[4] * 256 + d[3]) * 256 + d[2]) * 256 + d[1]]

\* a * b.
ExactMul(a, b) ==
    FromMagnitude((a < 0) # (b < 0), ProductDigits(MagDigits(a), MagDigits(b), 1, 0))

Exact(op, a, b) ==
    CASE op = "Add" -> ExactAdd(a, b)
      [] op = "Subtract" -> ExactSub(a, b)
      [] op = "Multiply" -> ExactMul(a, b)

\* ---- C9 ----
\* C9 (as written): ADDASSIGN adds with a check. When the target's value
\* plus the amount is an i32 the target holds the sum and the run goes on;
\* when it is not (2147483647 plus 1) the command fails with Overflow and
\* the target keeps its old value.
C9_AddAssignIsChecked ==
    \A x0 \in AddValues, amount \in AddValues :
        source = P_addassign(x0, amount) /\ Done =>
            IF ExactAdd(x0, amount).fits
            THEN /\ status = Finished
                 /\ global_is(N_x, Number(ExactAdd(x0, amount).v))
                 /\ global_is(N_after, Number(1))
            ELSE /\ status = Overflow
                 /\ global_is(N_x, Number(x0))
                 /\ N_after \notin DOMAIN variables

\* MAKE "x 2147483647  ADDASSIGN "x 1 has stored the wrapped sum and the
\* run has gone on.
C9_Witness ==
    /\ source = P_addassign(I32_MAX, 1)
    /\ status = Finished
    /\ global_is(N_x, Number(I32_MIN))
    /\ global_is(N_after, Number(1))

\* ---- C10 ----
\* The operand literals of the arithmetic programs that coerce to an
\* integer, and the integer each coerces to.
Coerces(v) ==
    v.t \in {"Number", "Boolean"} \/ v \in {String(<<"5">>), String(<<"-", "7">>)}

IntOf(v) ==
    CASE v.t = "Number" -> v.n
      [] v.t = "Boolean" -> IF v.b THEN 1 ELSE 0
      [] v = String(<<"5">>) -> 5
      [] v = String(<<"-", "7">>) -> -7

\* The source is MAKE "r op a b for one of +, -, * and two literals a, b.
ArithSource ==
    /\ Len(source) = 1
    /\ source[1].c = "Make"
    /\ source[1].value.e = "BinaryOp"
    /\ source[1].value.op \in ArithOps
    /\ source[1].value.left.e = "Value"
    /\ source[1].value.right.e = "Value"

\* The exact result of the operation of an arithmetic source.
ArithExact ==
    Exact(source[1].value.op, IntOf(source[1].value.left.v),
          IntOf(source[1].value.right.v))

\* C10: for +, - and * on operands that coerce to the i32 a and b, the
\* result is Number(a op b) when the exact result is an i32 and the error
\* Overflow otherwise (+ 2147483647 1 yields Overflow); no wrapped value is
\* produced.
C10_ArithmeticIsChecked ==
    (/\ ArithSource
     /\ Done
     /\ Coerces(source[1].value.left.v)
     /\ Coerces(source[1].value.right.v)) =>
        IF ArithExact.fits
        THEN status = Finished /\ global_is(N_r, Number(ArithExact.v))
        ELSE status = Overflow /\ N_r \notin DOMAIN variables

\* + 2147483647 1 has failed with Overflow.
C10_Witness ==
    /\ source = P_arith("Add", Number(I32_MAX), Number(1))
    /\ status = Overflow
    /\ Len(trace) = 1
    /\ N_r \notin DOMAIN variables

\* ---- C11 ----
\* The source is MAKE "r / a b on two of the division operands.
DivideSource ==
    /\ Len(source) = 1
    /\ source[1].c = "Make"
    /\ source[1].value.e = "BinaryOp"
    /\ source[1].value.op = "Divide"
    /\ source[1].value.left.e = "Value"
    /\ source[1].value.right.e = "Value"
    /\ source[1].value.left.v \in DivideValues
    /\ source[1].value.right.v \in DivideValues

\* The literal operands of the division programs that coerce to an integer
\* (all but the word abc), and the integer each coerces to.
DivideCoerces(v) == v # String(N_abc)

DivideInt(v) ==
    CASE v.t = "Number" -> v.n
      [] v.t = "Boolean" -> IF v.b THEN 1 ELSE 0
      [] v = String(<<"0">>) -> 0
      [] v = String(<<"5">>) -> 5

\* The divisors that coerce to 0.
ZeroDivisors == {Number(0), String(<<"0">>), Boolean(FALSE)}

\* C11: / yields DivisionByZero whenever its right operand coerces to the
\* integer 0 (Number 0, String "0", Boolean false), whatever integer the
\* left operand coerces to; the MAKE around it stores nothing.
C11_DivideByZero ==
    (/\ DivideSource
     /\ Done
     /\ DivideCoerces(source[1].value.left.v)
     /\ source[1].value.right.v \in ZeroDivisors) =>
        /\ status = DivisionByZero
        /\ N_r \notin DOMAIN variables

\* / 10 0 has failed with DivisionByZero.
C11_Witness ==
    /\ source = P_arith("Divide", Number(10), Number(0))
    /\ Len(trace) = 1
    /\ status = DivisionByZero
    /\ N_r \notin DOMAIN variables

\* ---- C12 ----
\* v is the quotient of l by r # 0 truncated toward zero: the remainder
\* l - v * r is smaller than r in magnitude and is zero or of the sign of l.
IsTruncatedQuotient(l, r, v) ==
    LET rem == l - v * r
    IN  /\ IF r > 0 THEN rem < r /\ 0 - rem < r ELSE rem > r /\ 0 - rem > r
        /\ rem = 0 \/ (rem < 0) = (l < 0)

\* The exact quotient fits in an i32: all but -2147483648 / -1.
QuotientFits(l, r) == ~(l = I32_MIN /\ r = -1)

\* C12: for a non-zero divisor the result of / is the quotient truncated
\* toward zero when it fits in an i32, and the error Overflow when it does
\* not (-2147483648 / -1): never a wrapped value, never a crash.
C12_DivisionIsChecked ==
    (/\ DivideSource
     /\ Done
     /\ DivideCoerces(source[1].value.left.v)
     /\ DivideCoerces(source[1].value.right.v)
     /\ DivideInt(source[1].value.right.v) # 0) =>
        IF QuotientFits(DivideInt(source[1].value.left.v),
                        DivideInt(source[1].value.right.v))
        THEN /\ status = Finished
             /\ N_r \in DOMAIN variables
             /\ variables[N_r].t = "Number"
             /\ IsTruncatedQuotient(DivideInt(source[1].value.left.v),
                                    DivideInt(source[1].value.right.v),
                                    variables[N_r].n)
        ELSE status = Overflow /\ N_r \notin DOMAIN variables

\* / -2147483648 -1 has aborted the process: no error value, no result.
C12_Witness ==
    /\ source = P_arith("Divide", Number(I32_MIN), Number(-1))
    /\ Len(trace) = 1
    /\ status = Panic
    /\ N_r \notin DOMAIN variables

\* Where the quotient fits, / yields it truncated toward zero.
C12_QuotientWhereItFits ==
    (/\ DivideSource
     /\ Done
     /\ DivideCoerces(source[1].value.left.v)
     /\ DivideCoerces(source[1].value.right.v)
     /\ DivideInt(source[1].value.right.v) # 0
     /\ QuotientFits(DivideInt(source[1].value.left.v),
                     DivideInt(source[1].value.right.v))) =>
        /\ status = Finished
        /\ N_r \in DOMAIN variables
        /\ variables[N_r].t = "Number"
        /\ IsTruncatedQuotient(DivideInt(source[1].value.left.v),
                               DivideInt(source[1].value.right.v),
                               variables[N_r].n)

\* ---- C13 ----
\* The programs that call a name that is not defined, and those that call
\* f (one formal parameter, body MAKE "b 1) with two arguments or none.
UnknownCalls == {P_unknown_procedure, P_unknown_failing_argument}
ArityCalls == {P_arity, P_arity_fewer}

\* The error of a call with `count` arguments to a procedure that takes
\* another number of them.
ArityError(count) == InvalidArgument(T_procedure_call, count \o T_arguments)

\* C13: a call of a name that is not in the registry fails with
\* InvalidArgument("procedure call", name) before any argument expression
\* is evaluated (the operand stack is still empty, and an argument that
\* would fail, :zz, does not); a call with a number of arguments other than
\* the number of formal parameters fails with InvalidArgument. In both
\* cases no parameter frame is ever pushed and no body command runs.
C13_RejectedCalls ==
    /\ source \in UnknownCalls \cup ArityCalls => parameter_stack = <<>>
    /\ (source \in UnknownCalls /\ Done) =>
            /\ status = InvalidArgument(T_procedure_call, N_nope)
            /\ stack = <<>>
            /\ trace = <<source[1]>>
    /\ (source \in ArityCalls /\ Done) =>
            /\ status = ArityError(IF source = P_arity THEN <<"2">> ELSE <<"0">>)
            /\ Len(trace) = 2
            /\ trace[2] = source[2]
            /\ N_b \notin DOMAIN variables

\* nope :zz has failed on the name, with :zz not evaluated.
C13_Witness ==
    /\ source = P_unknown_failing_argument
    /\ status = InvalidArgument(T_procedure_call, N_nope)
    /\ stack = <<>>
    /\ parameter_stack = <<>>

\* f 1 2 has failed on the number of arguments, after evaluating them.
C13_WitnessArity ==
    /\ source = P_arity
    /\ status = ArityError(<<"2">>)
    /\ stack = <<Number(1), Number(2)>>
    /\ parameter_stack = <<>>
    /\ N_b \notin DOMAIN variables

\* ---- C14 ----
\* C14: when a TO is executed, a formal parameter written :x is stored in
\* the registry as the string held by the variable x, if x holds a String
\* at that moment: after MAKE "p "foo, TO f :p ... END stores the parameter
\* foo, and f 7 binds foo, so that :foo is 7 inside the body.
C14_DefinitionTimeParameter ==
    source = P_definition_time =>
        /\ N_f \in DOMAIN procedures => procedures[N_f].parameters = <<N_foo>>
        /\ Done => status = Finished /\ global_is(N_r, Number(7))

\* TO f :p has stored the parameter p, f 7 has bound p, and :foo is
\* undefined in the body.
C14_Witness ==
    /\ source = P_definition_time
    /\ status = UndefinedVariable(N_foo)
    /\ procedures[N_f].parameters = <<N_p>>
    /\ Len(parameter_stack) = 1
    /\ DOMAIN parameter_stack[1] = {N_p}
    /\ parameter_stack[1][N_p] = Number(7)
    /\ N_r \notin DOMAIN variables

\* What the program does: the parser hands define_procedure the name
\* without its ':', so the parameter keeps the name it is written with,
\* whatever the variable of that name holds, and :p is the argument.
C14_ParameterKeepsItsName ==
    source \in {P_definition_time, P_definition_time_own} =>
        /\ N_f \in DOMAIN procedures => procedures[N_f].parameters = <<N_p>>
        /\ (source = P_definition_time_own /\ Done) =>
                status = Finished /\ global_is(N_r, Number(7))

\* ---- C15 ----
\* C15: all the argument expressions of a call are evaluated, in order,
\* before the frame of the callee is pushed, so a variable in an argument
\* is the caller's (the caller's frame, else the global), also when the
\* callee has a formal parameter of that name and when the call is
\* recursive. f + :a 10 passes the global a plus 10; g :b :a passes the
\* globals b and a to the formals a and b; in the recursion f - :n 1 every
\* frame binds one less than the frame of its caller; and of two failing
\* arguments the first one fails.
C15_ArgumentsInCallerScope ==
    /\ (source = P_argument_global /\ Done) =>
            status = Finished /\ global_is(N_r, Number(11))
    /\ (source = P_argument_swapped /\ Done) =>
            /\ status = Finished
            /\ global_is(N_r, Number(1))
            /\ SubSeq(stack, 5, 6) = <<Number(2), Number(1)>>
    /\ source = P_argument_recursive =>
            /\ Len(parameter_stack) <= 3
            /\ \A k \in 1..Len(parameter_stack) :
                    parameter_stack[k] = (N_n :> Number(3 - k))
            /\ Done => status = Finished /\ global_is(N_r, Number(3))
    /\ (source = P_argument_order /\ Done) =>
            /\ status = UndefinedVariable(N_zz)
            /\ parameter_stack = <<>>
            /\ N_r \notin DOMAIN variables

\* The innermost call of the recursion is running: three frames, the last
\* one binding n to 0, each argument taken from the frame of the caller.
C15_Witness ==
    /\ source = P_argument_recursive
    /\ status = Running
    /\ Len(parameter_stack) = 3
    /\ parameter_stack[3][N_n] = Number(0)
    /\ parameter_stack[2][N_n] = Number(1)

\* ---- C16 ----
\* parse_program has returned.
ParseDone == status # Unparsed

\* The texts that are well formed parse: the fixed-arity commands in every
\* place, and the text of the doubling program, which parses to the
\* program P_double is read as.
ParsesWellFormed ==
    /\ (source \in WellFormedTexts /\ ParseDone) => status = Running
    /\ (source = Text_double /\ ParseDone) =>
            cont = <<Frame("top", parse_program(P_double))>>

\* C16: a fixed-arity command followed by one expression too many makes
\* parse_program return InvalidArgument with that keyword as its command,
\* wherever the command is written: at top level, in the block of an IF or
\* of a WHILE, in the body of a TO ... END.
C16_ExtraArgumentRejected ==
    \A p \in Places, k \in FixedKeywords, x \in Extras :
        (source = Placed(p, FixedCommand(k) \o x) /\ ParseDone) =>
            status = InvalidArgument(k, <<>>)

\* TO f / FORWARD 10 5 / END has been parsed: the error is the one of a
\* definition without END, after 0 commands.
C16_Witness ==
    /\ source = Placed("body", <<T_FORWARD, Tk_10, N_5>>)
    /\ status = Unterminated(N_f, 0)
    /\ cont = <<>>

\* What the parser does: outside a TO the error is the InvalidArgument of
\* the keyword; in the body of a TO the body loop breaks on it, and the
\* definition is reported as unterminated after the commands before it.
C16_ExtraArgumentByPlace ==
    \A p \in Places, k \in FixedKeywords, x \in Extras :
        (source = Placed(p, FixedCommand(k) \o x) /\ ParseDone) =>
            status = CASE p = "body" -> Unterminated(N_f, 0)
                       [] p = "body second" -> Unterminated(N_f, 1)
                       [] OTHER -> InvalidArgument(k, <<>>)

\* ---- C17 ----
\* The line of the token at position i of a text, counted from 1.
LineOf(text, i) == Cardinality({k \in 1..(i - 1) : text[k] = NL}) + 1

\* In each of the texts with an END that closes no TO, that END is the
\* last END of the text.
StrayEnd(text) == MaxOf({k \in 1..Len(text) : text[k] = T_END})

\* C17: an END that closes no TO makes parse_program return the ParseError
\* whose message gives the line of that END in the text, counted from 1,
\* on whichever line the END is.
C17_EndLineNumber ==
    (source \in EndTexts /\ ParseDone) =>
        status = EndWithoutTo(LineOf(source, StrayEnd(source)))

\* PENUP / END has been parsed: the END of line 2 is reported on line 1.
C17_Witness ==
    /\ source = <<T_PENUP, NL, T_END>>
    /\ LineOf(source, StrayEnd(source)) = 2
    /\ status = EndWithoutTo(1)

\* What the parser does: the line number is counted in the text the tag has
\* consumed, the word END, so that every such END is reported on line 1.
C17_EndReportedOnLineOne ==
    (source \in EndTexts /\ ParseDone) => status = EndWithoutTo(1)

\* ---- C18 ----
\* The commands of a text with a TO and no END: every line after the first
\* that is not empty holds one.
BodyCount(text) ==
    Cardinality({i \in 2..Len(text) : text[i - 1] = NL /\ text[i] # NL})

\* C18: TO f, then k commands that parse, then the end of the text without
\* END, makes parse_program return the ParseError whose message names f
\* and gives k as the number of commands parsed.
C18_UnterminatedDefinition ==
    (source \in UnterminatedTexts /\ ParseDone) =>
        status = Unterminated(source[2], BodyCount(source))

\* TO f / PENUP / FORWARD 10 has been parsed: unterminated after 2 commands.
C18_Witness ==
    /\ source = <<T_TO, N_f, NL, T_PENUP, NL, T_FORWARD, Tk_10>>
    /\ BodyCount(source) = 2
    /\ status = Unterminated(N_f, 2)
    /\ cont = <<>>

\* ---- C19 ----
\* The source is MAKE "r EQ a b on two literal operands.
EqualSource ==
    /\ Len(source) = 1
    /\ source[1].c = "Make"
    /\ source[1].value.e = "BinaryOp"
    /\ source[1].value.op = "Equal"

\* The operand strings of the equality programs: which two are the same up
\* to the case of their letters, which are numerals, and of which integer.
SameIgnoringCase(s, t) ==
    s = t \/ {s, t} = {N_abc, N_AbC} \/ {s, t} = {N_e_acute, N_E_acute}
IsNumeralText(s) == s \in {N_5, N_05, <<"-", "7">>}
NumeralOf(s) == IF s = <<"-", "7">> THEN -7 ELSE 5

\* What EQ is to yield on two operands: a truth value, or none where it
\* is to fail with TypeMismatch.
EqualExpected(l, r) ==
    CASE l.t = "Number" /\ r.t = "Number" -> Some(l.n = r.n)
      [] l.t = "String" /\ r.t = "String" -> Some(SameIgnoringCase(l.s, r.s))
      [] l.t = "Boolean" /\ r.t = "Boolean" -> Some(l.b = r.b)
      [] l.t = "Number" /\ r.t = "String" /\ IsNumeralText(r.s) ->
            Some(l.n = NumeralOf(r.s))
      [] l.t = "String" /\ r.t = "Number" /\ IsNumeralText(l.s) ->
            Some(r.n = NumeralOf(l.s))
      [] OTHER -> None

\* C19: EQ compares two Numbers as integers, two Strings without regard to
\* the case of their letters, two Booleans directly, and a Number with a
\* String (in either order) as the number with the integer the string
\* parses to; it yields TypeMismatch if that string does not parse, and on
\* every other pair of operands.
C19_EqualIsPolymorphic ==
    (EqualSource /\ Done) =>
        LET expected == EqualExpected(source[1].value.left.v, source[1].value.right.v)
        IN  IF expected.ok
            THEN status = Finished /\ global_is(N_r, Boolean(expected.v))
            ELSE status = TypeMismatch /\ N_r \notin DOMAIN variables

\* EQ "abc "AbC has yielded TRUE.
C19_Witness ==
    /\ source = P_arith("Equal", String(N_abc), String(N_AbC))
    /\ status = Finished
    /\ global_is(N_r, Boolean(TRUE))

\* EQ "05 5 has yielded TRUE, and EQ TRUE 5 has failed.
C19_WitnessMixed ==
    \/ /\ source = P_arith("Equal", String(N_05), Number(5))
       /\ status = Finished
       /\ global_is(N_r, Boolean(TRUE))
    \/ /\ source = P_arith("Equal", Boolean(TRUE), Number(5))
       /\ status = TypeMismatch

\* ---- C20 ----
\* The operand literals of the coercion programs: the integer each is to
\* coerce to, or none for the strings that are not numerals.
CoercedInt(v) ==
    CASE v.t = "Number" -> Some(v.n)
      [] v.t = "Boolean" -> Some(IF v.b THEN 1 ELSE 0)
      [] v = String(N_5) -> Some(5)
      [] v = String(<<"-", "7">>) -> Some(-7)
      [] OTHER -> None

\* The programs that coerce in the evaluator, and in the operator
\* evaluator (left operand, right operand).
EvaluatorCoercions ==
    {P_coerce_turtle(c, v) : c \in CoercingCommands, v \in CoercionValues}
    \cup {P_coerce_addassign(v) : v \in CoercionValues}
LeftCoercions == {P_arith(op, v, Number(2)) : op \in CoercingOps, v \in CoercionValues}
RightCoercions == {P_arith(op, Number(2), v) : op \in CoercingOps, v \in CoercionValues}

\* The literal a coercion program coerces.
CoercedLiteral ==
    IF source \in LeftCoercions THEN source[1].value.left.v
    ELSE IF source \in RightCoercions THEN source[1].value.right.v
    ELSE IF source[1].c = "Make" THEN source[2].expr.v
    ELSE source[1].expr.v

\* The quotient of two small integers, b # 0, truncated toward zero.
SmallQuotient(a, b) ==
    IF (a < 0) = (b < 0) THEN Abs(a) \div Abs(b) ELSE 0 - (Abs(a) \div Abs(b))

\* The value an operator is to yield on two small integers.
OnIntegers(op, a, b) ==
    CASE op = "Add" -> Number(a + b)
      [] op = "Subtract" -> Number(a - b)
      [] op = "Multiply" -> Number(a * b)
      [] op = "Divide" -> Number(SmallQuotient(a, b))
      [] op = "NotEqual" -> Boolean(a # b)
      [] op = "GreaterThan" -> Boolean(a > b)
      [] op = "LessThan" -> Boolean(a < b)

\* A coercion program has done with the integer n what it does with the
\* literal Number(n): the turtle command has acted on a new turtle (or has
\* rejected the color n), ADDASSIGN has added n to 10, the operator has
\* been applied to n and 2 (or has rejected the divisor 0).
ActedOnInteger(n) ==
    IF source \in LeftCoercions \cup RightCoercions
    THEN IF source \in RightCoercions /\ source[1].value.op = "Divide" /\ n = 0
         THEN status = DivisionByZero
         ELSE /\ status = Finished
              /\ global_is(N_r, IF source \in LeftCoercions
                                THEN OnIntegers(source[1].value.op, n, 2)
                                ELSE OnIntegers(source[1].value.op, 2, n))
    ELSE IF source[1].c = "Make"
    THEN status = Finished /\ global_is(N_x, Number(10 + n))
    ELSE IF source[1].c = "SetPenColor" /\ (n < 0 \/ n > 15)
    THEN status = InvalidArgument(T_SETPENCOLOR, i32_to_string(n))
    ELSE /\ status = Finished
         /\ Ok(turtle) \in turtle_command(turtle_new(ImageSize, ImageSize),
                                          source[1].c, n)

\* C20 as it stands: the to-integer coercion is the same in the evaluator
\* (movement, color, heading, position, ADDASSIGN) and in the operator
\* evaluator (+ - * / NE GT LT): a Number is itself, a Boolean 0 or 1, a
\* String that is a numeral its integer, and a String that is not a
\* numeral yields UnexpectedValue.
C20_OneCoercion ==
    (source \in EvaluatorCoercions \cup LeftCoercions \cup RightCoercions /\ Done) =>
        IF CoercedInt(CoercedLiteral).ok
        THEN ActedOnInteger(CoercedInt(CoercedLiteral).v)
        ELSE status = UnexpectedValue(CoercedLiteral.s)

\* C20, amended: the coercion maps a Number to itself, a Boolean to 0 or 1
\* and a String that is a numeral to its integer wherever it is applied; a
\* String that is not a numeral yields UnexpectedValue (with the string) in
\* the evaluator and TypeMismatch in the operator evaluator.
C20_CoercionByPlace ==
    (source \in EvaluatorCoercions \cup LeftCoercions \cup RightCoercions /\ Done) =>
        IF CoercedInt(CoercedLiteral).ok
        THEN ActedOnInteger(CoercedInt(CoercedLiteral).v)
        ELSE IF source \in EvaluatorCoercions
        THEN status = UnexpectedValue(CoercedLiteral.s)
        ELSE status = TypeMismatch

\* + "abc 2 has failed with TypeMismatch.
C20_Witness ==
    /\ source = P_arith("Add", String(N_abc), Number(2))
    /\ Done
    /\ status = TypeMismatch
    /\ N_r \notin DOMAIN variables

\* FORWARD "abc has failed with UnexpectedValue, and SETX "5 has set x to 5.
C20_WitnessEvaluator ==
    \/ /\ source = P_coerce_turtle("Forward", String(N_abc))
       /\ status = UnexpectedValue(N_abc)
    \/ /\ source = P_coerce_turtle("SetX", String(N_5))
       /\ status = Finished
       /\ turtle.x = 5

\* ---- C21 ----
\* The end of a run: the position, the heading and the pen color of the
\* turtle and the global variables.
End(x, y, heading, color, vs) ==
    [x |-> x, y |-> y, heading |-> heading, color |-> color, variables |-> vs]
EndNow == End(turtle.x, turtle.y, turtle.heading, turtle.color, variables)
EndOfFirstRun ==
    End(trace[1].turtle.x, trace[1].turtle.y, trace[1].turtle.heading,
        trace[1].turtle.color, trace[1].variables)

\* The turtle of a new interpreter is at the centre, heads up and is white.
EndAtCentre(vs) == End(ImageSize \div 2, ImageSize \div 2, 0, COLOR_WHITE, vs)

\* The programs whose error-free end is written down here, worked out from
\* the text of the program, and that end. (TURN 1 at the heading i32::MAX
\* is free of an error only where the sum wraps.)
EndKnown ==
    {P_pose, P_turtle, P_double, P_addassign(10, 1), P_while(0, 3),
     P_heading(I32_MAX, "Turn", 1)}
EndExpected ==
    CASE source = P_pose -> End(3, 3, -45, 3, (N_q :> Number(-39)))
      [] source = P_turtle ->
            End(5, 6, 180, 3, (N_q :> Number(11)) @@ (N_r :> Number(183)))
      [] source = P_double -> EndAtCentre((N_result :> Number(42)))
      [] source = P_addassign(10, 1) ->
            EndAtCentre((N_x :> Number(11)) @@ (N_after :> Number(1)))
      [] source = P_while(0, 3) -> EndAtCentre((N_i :> Number(3)))
      [] source = P_heading(I32_MAX, "Turn", 1) ->
            End(ImageSize \div 2, ImageSize \div 2, I32_MIN, COLOR_WHITE,
                (N_after :> Number(1)))

C21_WitnessTurtle ==
    /\ source = P_turtle
    /\ Rerun /\ Done /\ status = Finished
    /\ turtle # turtle_new(ImageSize, ImageSize)
    /\ N_q \in DOMAIN variables

\* An ADDASSIGN program has run twice.
C21_WitnessAddAssign ==
    /\ source = P_addassign(10, 1)
    /\ Rerun /\ Done /\ status = Finished
    /\ global_is(N_x, Number(11))

\* A movement off the exact range has run twice.
C21_WitnessOffAxis ==
    /\ source \in OffAxisPrograms
    /\ Rerun /\ Done /\ status = Finished

\* ---- C22 ----
\* The expression a command evaluates first: the value of a MAKE (after its
\* name), the condition of an IF or a WHILE, the argument of the others.
CommandExpression(cmd) ==
    CASE cmd.c = "Make" -> cmd.value
      [] cmd.c \in {"If", "While"} -> cmd.condition
      [] cmd.c \in {"Forward", "Back", "Left", "Right", "SetPenColor", "Turn",
                    "SetHeading", "SetX", "SetY", "AddAssign", "Expression"} -> cmd.expr
      [] OTHER -> NumE(0)

\* The command dispatched last has applied a binary operator: its
\* expression is a BinaryOp and the error, if any, is not one of the
\* evaluation of an operand.
OperatorApplied ==
    /\ trace # <<>>
    /\ CommandExpression(trace[Len(trace)]).e = "BinaryOp"
    /\ status.kind # "UndefinedVariable"

\* C22: StackUnderflow is unreachable: no run ends with StackUnderflow, and
\* whenever a command has applied a binary operator the operand stack holds
\* at least the two operands the evaluation has pushed.
C22_NoStackUnderflow ==
    /\ status # StackUnderflow
    /\ OperatorApplied => Len(stack) >= 2

\* A nested binary operation has been evaluated: MAKE "q AND GT 2 1 OR :b :c.
C22_Witness ==
    /\ source = P_operators
    /\ Len(trace) = 4
    /\ OperatorApplied
    /\ global_is(N_q, Boolean(TRUE))
    /\ Len(stack) >= 2

\* ---- C23 ----
\* The values held by the global environment, by the parameter frames and
\* by the operand stack.
HeldValues ==
    {variables[k] : k \in DOMAIN variables}
    \cup UNION {{parameter_stack[i][k] : k \in DOMAIN parameter_stack[i]} :
                   i \in 1..Len(parameter_stack)}
    \cup {stack[i] : i \in 1..Len(stack)}

\* C23: in every reachable state no unresolved variable reference
\* (Value::Variable) is stored in the global environment, bound in a
\* parameter frame or present on the operand stack.
C23_NoUnresolvedReference == \A v \in HeldValues : v.t # "Variable"

\* In the body of g :b :a the references :a and :b have been evaluated: the
\* frame binds numbers, the stack holds them and r is their difference.
C23_Witness ==
    /\ source = P_argument_swapped
    /\ Len(parameter_stack) = 1
    /\ parameter_stack[1][N_a] = Number(2)
    /\ global_is(N_r, Number(1))
    /\ stack[Len(stack)] = Number(1)

\* ---- C24 ----
\* The command dispatched last is a MAKE of a variable named by a literal
\* word, and it has stored its value.
AfterMake ==
    /\ trace # <<>>
    /\ trace[Len(trace)].c = "Make"
    /\ ~Failed
    /\ trace[Len(trace)].name.e = "Value"
    /\ trace[Len(trace)].name.v.t = "String"
    /\ to_uppercase(trace[Len(trace)].name.v.s) \notin {T_TRUE, T_FALSE}

\* The expression that MAKE has evaluated and the variable it has set.
MadeExpression == trace[Len(trace)].value
MadeName == trace[Len(trace)].name.v.s

\* What MAKE stores for the value on top of the operand stack.
TopAsStored == stored_value(make_stored(stack[Len(stack)]))

\* The last literal or query of an expression, and its value where it is
\* not a reference.
RECURSIVE RightmostLeaf(_)
RightmostLeaf(expr) ==
    IF expr.e = "BinaryOp" THEN RightmostLeaf(expr.right) ELSE expr

LeafValue(leaf) ==
    IF leaf.e = "Query" THEN resolve_query(leaf.query).v ELSE resolve_value(leaf.v).v

IsReference(leaf) == leaf.e = "Value" /\ leaf.v.t = "Variable"

\* C24 as it stands: after evaluate_expression has returned a value for any
\* expression (a literal, a query or a BinaryOp), that value is the top of
\* the operand stack; here the expression is the value of a MAKE, which
\* stores what was returned.
C24_ResultIsPushed ==
    AfterMake => global_is(MadeName, TopAsStored)

\* C24, amended: the evaluation of a literal or a query pushes its result,
\* which is then the top of the operand stack; the evaluation of a BinaryOp
\* returns its result without pushing it, and the top of the stack is the
\* value of the last literal or query of its right operand.
C24_LeafResultIsPushed ==
    AfterMake =>
        /\ stack # <<>>
        /\ IF MadeExpression.e # "BinaryOp"
           THEN global_is(MadeName, TopAsStored)
           ELSE IsReference(RightmostLeaf(MadeExpression)) \/
                stack[Len(stack)] = LeafValue(RightmostLeaf(MadeExpression))

\* MAKE "r - - 9 2 - 4 1 has stored 4 and the top of the stack is 1.
C24_Witness ==
    /\ source = P_push
    /\ Len(trace) = 4
    /\ AfterMake
    /\ global_is(N_r, Number(4))
    /\ stack[Len(stack)] = Number(1)

\* MAKE "b HEADING has stored the heading, which is the top of the stack.
C24_WitnessQuery ==
    /\ source = P_push
    /\ Len(trace) = 3
    /\ AfterMake
    /\ global_is(N_b, Number(turtle.heading))
    /\ stack[Len(stack)] = Number(turtle.heading)

\* ---- C25 ----
\* The programs MAKE "r op opl 9 2 opr 4 1.
TreePrograms == {P_tree(op, opl, opr) : op \in TreeOps, opl \in TreeOps, opr \in TreeOps}

\* The integer an expression of small literal numbers and arithmetic
\* operators denotes.
RECURSIVE Denote(_)
Denote(expr) ==
    IF expr.e = "BinaryOp"
    THEN OnIntegers(expr.op, Denote(expr.left), Denote(expr.right)).n
    ELSE expr.v.n

\* The literals of such an expression as values, from left to right.
RECURSIVE LiteralsInOrder(_)
LiteralsInOrder(expr) ==
    IF expr.e = "BinaryOp"
    THEN LiteralsInOrder(expr.left) \o LiteralsInOrder(expr.right)
    ELSE <<expr.v>>

\* C25: for every BinaryOp(op, L, R), also when L and R are BinaryOps, L is
\* evaluated completely before R (its literals are pushed first, and its
\* error is the one reported when both fail), the operator pops the two
\* values pushed for it and nothing else, and the result is op applied to
\* (value of L, value of R).
C25_LeftThenRight ==
    /\ (source \in TreePrograms /\ Done) =>
          /\ status = Finished
          /\ global_is(N_r, Number(Denote(source[1].value)))
          /\ stack = <<String(N_r)>> \o LiteralsInOrder(source[1].value)
    /\ (source = P_fail_left_first /\ Done) =>
          /\ status = UndefinedVariable(N_zz)
          /\ stack = <<String(N_r)>>
    /\ (source = P_fail_right_last /\ Done) =>
          /\ status = DivisionByZero
          /\ stack = <<String(N_r), Number(1), Number(0)>>

\* MAKE "r - - 9 2 / 4 1 has stored 3 and has left the four literals on the
\* stack in the order in which they are written.
C25_Witness ==
    /\ source = P_tree("Subtract", "Subtract", "Divide")
    /\ Done
    /\ global_is(N_r, Number(3))
    /\ stack = <<String(N_r), Number(9), Number(2), Number(4), Number(1)>>

\* ---- C26 ----
\* The procedure calls that are active: the bodies being executed.
ActiveCalls == {k \in 1..Len(cont) : cont[k].kind = "call"}

\* C26: while no error has occurred the parameter stack has one frame for
\* each active procedure call, recursive calls included, so that it is
\* empty whenever execution is at the top level and when the program has
\* ended.
C26_FramePerActiveCall ==
    ~Failed =>
        /\ Len(parameter_stack) = Cardinality(ActiveCalls)
        /\ (cont = <<>> \/ Top.kind = "top") => parameter_stack = <<>>

\* A frame is pushed exactly when a call enters its body and popped exactly
\* when a body completes; no other step changes the parameter stack.
C26_PushOnEntryPopOnReturn ==
    [][~Failed' =>
        /\ (AtCommand({"ProcedureCall"}) /\ trace' # trace) <=>
               /\ Len(parameter_stack') = Len(parameter_stack) + 1
               /\ SubSeq(parameter_stack', 1, Len(parameter_stack)) = parameter_stack
        /\ (AtEnd("call") /\ cont' # cont) <=>
               /\ parameter_stack # <<>>
               /\ parameter_stack' = SubSeq(parameter_stack, 1, Len(parameter_stack) - 1)
        /\ (Len(parameter_stack') = Len(parameter_stack)) => parameter_stack' = parameter_stack
      ]_vars

\* f 2 has called f 1, which has called f 0: three calls are active and
\* three frames are on the parameter stack.
C26_Witness ==
    /\ source = P_argument_recursive
    /\ ~Failed
    /\ Cardinality(ActiveCalls) = 3
    /\ Len(parameter_stack) = 3
    /\ parameter_stack[3][N_n] = Number(0)

\* The recursion has returned to the top level with an empty parameter stack.
C26_WitnessReturned ==
    /\ source = P_argument_recursive
    /\ status = Finished
    /\ global_is(N_r, Number(3))
    /\ parameter_stack = <<>>

\* ---- C27 ----
\* The number of literals and queries of an expression.
RECURSIVE LeafCount(_)
LeafCount(expr) ==
    IF expr.e = "BinaryOp" THEN LeafCount(expr.left) + LeafCount(expr.right) ELSE 1

RECURSIVE LeafCountAll(_, _)
LeafCountAll(exprs, k) ==
    IF k > Len(exprs) THEN 0 ELSE LeafCount(exprs[k]) + LeafCountAll(exprs, k + 1)

\* The number of literals and queries of the expressions a command
\* evaluates when all its evaluations succeed.
CommandLeaves(cmd) ==
    CASE cmd.c = "Make" -> LeafCount(cmd.name) + LeafCount(cmd.value)
      [] cmd.c \in {"If", "While"} -> LeafCount(cmd.condition)
      [] cmd.c = "ProcedureCall" -> LeafCountAll(cmd.arguments, 1)
      [] cmd.c \in {"PenUp", "PenDown", "ProcedureDefinition"} -> 0
      [] OTHER -> LeafCount(cmd.expr)

\* C27: the operand stack is never drained: no step removes or changes a
\* value that is on it, and a command that succeeds makes it deeper by the
\* number of literals and queries of the expressions it evaluates, which is
\* at least one for every evaluation of the condition of a WHILE.
C27_StackNeverDrained ==
    [][/\ Len(stack') >= Len(stack)
       /\ SubSeq(stack', 1, Len(stack)) = stack
       /\ (trace' # trace /\ ~Failed') =>
              Len(stack') = Len(stack) + CommandLeaves(Cur)
       /\ (trace' # trace /\ ~Failed' /\ Cur.c = "While") =>
              Len(stack') > Len(stack)
      ]_vars

\* MAKE "i 0  WHILE LT :i 3 [ MAKE "i + :i 1 ] has ended: 2 values of the
\* first MAKE, 2 of each of the 4 evaluations of the condition and 3 of each
\* of the 3 turns of the body are on the stack.
C27_Witness ==
    /\ source = P_while(0, 3)
    /\ status = Finished
    /\ global_is(N_i, Number(3))
    /\ Len(stack) = 19

\* ---- C28 ----
\* The programs in which the body of f :p assigns to the name p, the
\* integer the assigned literal v is as a global variable, and the frame of
\* the call f 7.
ShadowPrograms == {P_shadow(v) : v \in ShadowValues}
ShadowLiteral == source[1].body[1].value.v
ShadowInt(v) ==
    CASE v.t = "Number" -> v.n
      [] v.t = "Boolean" -> IF v.b THEN 1 ELSE 0
      [] v = String(N_5) -> 5
ShadowFrame == (N_p :> Number(7))

\* No parameter frame is changed: the one frame of the call f 7 binds p to
\* 7 as long as the call is active.
FrameUnchanged ==
    (source \in ShadowPrograms \cup {P_shadow_unset, P_shadow_named}
        /\ parameter_stack # <<>>) =>
            parameter_stack = <<ShadowFrame>>

\* Where the assigned literal is an integer, a Boolean or a numeral, the
\* global p holds a Number: ADDASSIGN "p 1 adds 1 to it, :p is the argument
\* 7 in the body (a, b) and the global p after the return (c).
NumberAssigned ==
    (source \in ShadowPrograms /\ Done /\ ShadowLiteral # String(N_abc)) =>
        /\ status = Finished
        /\ parameter_stack = <<>>
        /\ variables =
              (N_p :> Number(ShadowInt(ShadowLiteral) + 1)) @@
              (N_a :> Number(7)) @@ (N_b :> Number(7)) @@
              (N_c :> Number(ShadowInt(ShadowLiteral) + 1))

\* Without a global p, ADDASSIGN "p fails although the parameter p is bound.
UnsetFails ==
    (source = P_shadow_unset /\ Done) =>
        /\ status = UndefinedVariable(N_p)
        /\ variables = [k \in {} |-> k]

\* C28 as it stands: while the call f 7 of a procedure with the formal
\* parameter p is active, MAKE "p v and ADDASSIGN "p 1 in its body read and
\* write only the global variable p and leave the parameter frame as it
\* is: no other global is written (q stays 10), and no other variable is
\* looked up (an UndefinedVariable names p).
C28_OnlyGlobalP ==
    /\ FrameUnchanged
    /\ NumberAssigned
    /\ UnsetFails
    /\ (source = P_shadow_named /\ N_q \in DOMAIN variables) =>
          variables[N_q] = Number(10)
    /\ (source \in ShadowPrograms \cup {P_shadow_named}
            /\ status.kind = "UndefinedVariable") =>
          status = UndefinedVariable(N_p)

\* C28, amended: while the call f 7 of a procedure with the formal parameter
\* p is active, MAKE "p v in its body writes the global variable p, and
\* ADDASSIGN "p 1 reads and writes the global variable p unless the global
\* p holds a String: then it reads and writes the global variable that
\* String names (q becomes 11 and p keeps the word q), and fails with
\* UndefinedVariable naming it when there is none (abc). The parameter
\* frame is left as it is: :p resolves to the argument 7 after each of
\* them, and to the global p after the return.
C28_BodyAssignsGlobal ==
    /\ FrameUnchanged
    /\ NumberAssigned
    /\ UnsetFails
    /\ (source = P_shadow_named /\ Done) =>
          /\ status = Finished
          /\ parameter_stack = <<>>
          /\ variables =
                (N_q :> Number(11)) @@ (N_p :> String(N_q)) @@
                (N_a :> Number(7)) @@ (N_b :> Number(7)) @@ (N_c :> String(N_q))
    /\ (source = P_shadow(String(N_abc)) /\ Done) =>
          /\ status = UndefinedVariable(N_abc)
          /\ variables = (N_p :> String(N_abc)) @@ (N_a :> Number(7))

\* In the body of f 7, where the global p holds the word q: ADDASSIGN "p 1
\* has made q 11, p still holds the word, the frame still binds p to 7 and
\* MAKE "b :p has stored 7.
C28_WitnessNamed ==
    /\ source = P_shadow_named
    /\ parameter_stack = <<ShadowFrame>>
    /\ global_is(N_q, Number(11))
    /\ global_is(N_p, String(N_q))
    /\ global_is(N_b, Number(7))

\* In the body of f 7, after MAKE "p 5 and ADDASSIGN "p 1: the global p is
\* 6, the frame still binds p to 7 and MAKE "b :p has stored 7.
C28_Witness ==
    /\ source = P_shadow(Number(5))
    /\ parameter_stack = <<ShadowFrame>>
    /\ global_is(N_p, Number(6))
    /\ global_is(N_b, Number(7))

\* After the return :p is the global p.
C28_WitnessReturned ==
    /\ source = P_shadow(Number(5))
    /\ status = Finished
    /\ global_is(N_c, Number(6))

\* ---- C29 ----
\* The programs MAKE "s v  MAKE "r :s, their name s and their literal v.
RoundTrips == {P_roundtrip(s, v) : s \in RoundTripNames, v \in RoundTripValues}
RoundTripName == source[1].name.v.s
RoundTripLiteral == source[1].value.v

\* The normalized form of a literal of the round trips: a numeral is its
\* Number, a word that spells true or false its Boolean.
Normalized(v) ==
    CASE v = String(N_5) -> Number(5)
      [] v = String(<<"-", "7">>) -> Number(-7)
      [] v = String(T_true) -> Boolean(TRUE)
      [] v = String(T_FALSE) -> Boolean(FALSE)
      [] OTHER -> v

\* The names that spell TRUE or FALSE in some letter case other than the
\* lower case.
TruthNames == {T_TRUE, N_True, T_FALSE}

\* C29 as it stands: at top level, for every literal name s and literal
\* value v, after MAKE "s v the evaluation of :s yields the normalized form
\* of v, also for names that spell TRUE or FALSE in any letter case and for
\* names made of digits; here :s is stored in r.
C29_RoundTrip ==
    (source \in RoundTrips /\ Done) =>
        /\ status = Finished
        /\ global_is(N_r, Normalized(RoundTripLiteral))

\* After MAKE "TRUE 7 the variable true holds 7 and :TRUE is undefined.
C29_Witness ==
    /\ source = P_roundtrip(T_TRUE, Number(7))
    /\ Done
    /\ status = UndefinedVariable(T_TRUE)
    /\ variables = (T_true :> Number(7))

\* The round trip holds for every name that does not spell TRUE or FALSE
\* with an upper-case letter, names made of digits included; for the
\* others MAKE sets the variable true or false and :s is undefined.
C29_RoundTripByName ==
    (source \in RoundTrips /\ Done) =>
        IF RoundTripName \in TruthNames
        THEN /\ status = UndefinedVariable(RoundTripName)
             /\ DOMAIN variables \in {{T_true}, {T_false}}
        ELSE /\ status = Finished
             /\ global_is(N_r, Normalized(RoundTripLiteral))
             /\ global_is(RoundTripName, Normalized(RoundTripLiteral))

\* ---- C30 ----
\* The programs MAKE "r NE a b on the operands of the equality programs, and
\* what EQ yields on their resolved operands.
NotEqualPrograms == {P_arith("NotEqual", a, b) : a \in EqualValues, b \in EqualValues}
EqualOfOperands ==
    equal(resolve_value(source[1].value.left.v).v,
          resolve_value(source[1].value.right.v).v)

\* C30 as it stands: NE is the negation of EQ: on every pair of resolved
\* operands on which both return a result, the result of NE is the Boolean
\* opposite of the result of EQ.
C30_NotEqualNegatesEqual ==
    (source \in NotEqualPrograms /\ Done /\ status = Finished /\ EqualOfOperands.ok) =>
        global_is(N_r, Boolean(~EqualOfOperands.v.b))

\* NE "5 "05 has yielded false, and so does EQ "5 "05.
C30_Witness ==
    /\ source = P_arith("NotEqual", String(N_5), String(N_05))
    /\ status = Finished
    /\ global_is(N_r, Boolean(FALSE))
    /\ EqualOfOperands = Ok(Boolean(FALSE))

\* NE negates EQ wherever the operands are not two Strings: EQ compares two
\* Strings as texts, NE as the integers they parse to.
C30_NegatesOffStrings ==
    (/\ source \in NotEqualPrograms
     /\ Done
     /\ status = Finished
     /\ EqualOfOperands.ok
     /\ ~(source[1].value.left.v.t = "String" /\ source[1].value.right.v.t = "String")) =>
        global_is(N_r, Boolean(~EqualOfOperands.v.b))

====
